---------------------------- MODULE Spec2Model ----------------------------
(***************************************************************************)
(* A model of the parallel-loop lowering pipeline of numba-mlir:           *)
(*   - ParallelToTbb      (scf.parallel -> numba_util.parallel + reduction *)
(*                         buffers), and the execution of what it emits;   *)
(*   - HoistBufferAllocs  (memref.alloc hoisting out of loop nests);       *)
(*   - LowerParallel      (outlining to nmrtParallelFor + context struct); *)
(*   - ReturnOpLowering   (the return rewriting of the ABI fixer).         *)
(* Every part has its own specification over its own variables; the        *)
(* variables of the other parts stay at their idle values.                 *)
(***************************************************************************)
EXTENDS Integers, Sequences, FiniteSets, TLC

(***************************************************************************)
(* Bounds of the model.                                                    *)
(***************************************************************************)
\* largest trip count of a rewritten scf.parallel
MaxIter == 2
\* largest value of the numba.max_concurrency attribute
MaxConc == 2
\* deepest nest of operations around a memref.alloc
MaxDepth == 2
\* largest trip count of an enclosing loop in an execution
MaxTrip == 2
\* most operands of a func.return
MaxOperands == 2
\* deepest nest of operations around an scf.parallel
MaxNest == 3

\* the reductions of the model have the integer type iWidth
Width == 2

VARIABLES
  \* ---- execution of the code ParallelToTbb emits ----
  rop,        \* the single operation of the reduce region
  initVal,    \* op.getInitVals() of the original loop
  data,       \* the value each iteration hands to scf.reduce
  mc,         \* numba.max_concurrency of the enclosing function
  reduceVar,  \* the memref.alloca of maxConcurrency elements
  pc,         \* which emitted loop is executing
  idx,        \* induction variable of the init / combine scf.for
  total,      \* iter_arg of the combine scf.for
  assigned,   \* iterations the runtime has handed out
  th,         \* per thread index: state of the body invocation
  accessLog,  \* <<thread, slot>> accesses made inside the parallel body
  result,     \* the value that replaces the original loop result
  \* ---- HoistBufferAllocs on a function ----
  hNest,      \* the ancestors of the memref.alloc, outermost first
  hOps,       \* the other operations of the function
  hAttr,      \* the numba.max_concurrency attribute of the function
  hFunc,      \* whether a func.func encloses the allocation
  hBefore,    \* hOps before the last pattern application
  hTarget,    \* the operation the pattern was last applied to
  hResult     \* what the last application returned

redVars == <<rop, initVal, data, mc, reduceVar, pc, idx, total, assigned,
             th, accessLog, result>>

hoistVars == <<hNest, hOps, hAttr, hFunc, hBefore, hTarget, hResult>>

\* the function LowerParallel rewrites and the run of the code it emits
VARIABLES lShape, lLoops, lWalk, lTrips, lThreads, lState, lAnchor, lPhase, lIter,
          lProc, lCtx, lLog

lowerVars == <<lShape, lLoops, lWalk, lTrips, lThreads, lState, lAnchor, lPhase,
               lIter, lProc, lCtx, lLog>>

\* the function PreLLVMLowering runs on and the outcome of the return pattern
VARIABLES rPrivate, rModule, rOperands, rPhase, rOps, rFuncs, rBefore,
          rResult, rDiag

returnVars == <<rPrivate, rModule, rOperands, rPhase, rOps, rFuncs, rBefore,
                rResult, rDiag>>

\* the function ParallelToTbb is applied to and the driver's worklist
VARIABLES tOrig, tChain, tAttr, tWork, tChanged, tPhase, tRewrites, tLog

tbbVars == <<tOrig, tChain, tAttr, tWork, tChanged, tPhase, tRewrites, tLog>>

\* the module's symbols in module order and the functions LowerParallel added
VARIABLES nSyms, nLog

nameVars == <<nSyms, nLog>>

\* one loadModule call of the execution engine, its outcome, and the lookups that follow
VARIABLES eIn, eOut, eLook

engineVars == <<eIn, eOut, eLook>>

\* the object cache of the engine, the loaded modules and the threads that look symbols up
VARIABLES cEnabled, cId, cMods, cTh, cCache, cObj, cServed

cacheVars == <<cEnabled, cId, cMods, cTh, cCache, cObj, cServed>>

\* the pipelines that have run, the one running, the passes run and the function they run on
VARIABLES pDone, pCur, pIdx, pRan, pFunc, pStatus

pipeVars == <<pDone, pCur, pIdx, pRan, pFunc, pStatus>>

\* an scf.for whose body is a chain of casts from its iteration argument to its yield, and the rules at work on it
VARIABLES kFamily, kIter, kChain, kInit, kRes, kPhase, kRun, kCount

castVars == <<kFamily, kIter, kChain, kInit, kRes, kPhase, kRun, kCount>>

\* the symbols of the module PreLLVMLowering runs on, the conversion functions requested, and whether assertions are compiled in
VARIABLES uSyms, uLog, uAssert, uPhase

thunkVars == <<uSyms, uLog, uAssert, uPhase>>

\* the functions of the module PreLLVMLowering is run on, the function the pass manager is at, and how far the pass got
VARIABLES aSyms, aIdx, aPhase

abiVars == <<aSyms, aIdx, aPhase>>

\* the uses of an allocation and of the views of it, and what the escape check of HoistBufferAllocs answered
VARIABLES xUses, xRes

escapeVars == <<xUses, xRes>>

\* the operations of the region promoteLoads is applied to, what it left of them, and whether it has run
VARIABLES mProg, mOut, mPhase

promoteVars == <<mProg, mOut, mPhase>>

\* the reference count of one meminfo, the references each thread holds, where each thread is in NRT_decref, the value its atomicrmw returned, and the destructor calls so far
VARIABLES nrtRefcnt, nrtHeld, nrtPc, nrtRes, nrtDtor

nrtVars == <<nrtRefcnt, nrtHeld, nrtPc, nrtRes, nrtDtor>>

\* the buffer and the operations after it in its block that SingeWriteMemref is applied to, what it left of them, and its result
VARIABLES wBuf, wBlock, wOut, wRes

singleVars == <<wBuf, wBlock, wOut, wRes>>

vars == <<redVars, hoistVars, lowerVars, returnVars, tbbVars, nameVars, engineVars, cacheVars, pipeVars,
          castVars, thunkVars, abiVars, escapeVars, promoteVars, nrtVars, singleVars>>

\* the variables an action of one part leaves alone
notRed == <<hoistVars, lowerVars, returnVars, tbbVars, nameVars, engineVars, cacheVars, pipeVars,
            castVars, thunkVars, abiVars, escapeVars, promoteVars, nrtVars, singleVars>>
notHoist == <<redVars, lowerVars, returnVars, tbbVars, nameVars, engineVars, cacheVars, pipeVars,
              castVars, thunkVars, abiVars, escapeVars, promoteVars, nrtVars, singleVars>>
notLower == <<redVars, hoistVars, returnVars, tbbVars, nameVars, engineVars, cacheVars, pipeVars,
              castVars, thunkVars, abiVars, escapeVars, promoteVars, nrtVars, singleVars>>
notReturn == <<redVars, hoistVars, lowerVars, tbbVars, nameVars, engineVars, cacheVars, pipeVars,
               castVars, thunkVars, abiVars, escapeVars, promoteVars, nrtVars, singleVars>>
notTbb == <<redVars, hoistVars, lowerVars, returnVars, nameVars, engineVars, cacheVars, pipeVars,
            castVars, thunkVars, abiVars, escapeVars, promoteVars, nrtVars, singleVars>>
notName == <<redVars, hoistVars, lowerVars, returnVars, tbbVars, engineVars, cacheVars, pipeVars,
             castVars, thunkVars, abiVars, escapeVars, promoteVars, nrtVars, singleVars>>
notEngine == <<redVars, hoistVars, lowerVars, returnVars, tbbVars, nameVars, cacheVars, pipeVars,
               castVars, thunkVars, abiVars, escapeVars, promoteVars, nrtVars, singleVars>>
notCache == <<redVars, hoistVars, lowerVars, returnVars, tbbVars, nameVars, engineVars, pipeVars,
              castVars, thunkVars, abiVars, escapeVars, promoteVars, nrtVars, singleVars>>
notPipe == <<redVars, hoistVars, lowerVars, returnVars, tbbVars, nameVars, engineVars, cacheVars,
             castVars, thunkVars, abiVars, escapeVars, promoteVars, nrtVars, singleVars>>
notCast == <<redVars, hoistVars, lowerVars, returnVars, tbbVars, nameVars, engineVars, cacheVars,
             pipeVars, thunkVars, abiVars, escapeVars, promoteVars, nrtVars, singleVars>>
notThunk == <<redVars, hoistVars, lowerVars, returnVars, tbbVars, nameVars, engineVars, cacheVars,
              pipeVars, castVars, abiVars, escapeVars, promoteVars, nrtVars, singleVars>>
notAbi == <<redVars, hoistVars, lowerVars, returnVars, tbbVars, nameVars, engineVars, cacheVars,
            pipeVars, castVars, thunkVars, escapeVars, promoteVars, nrtVars, singleVars>>
notEscape == <<redVars, hoistVars, lowerVars, returnVars, tbbVars, nameVars, engineVars, cacheVars,
               pipeVars, castVars, thunkVars, abiVars, promoteVars, nrtVars, singleVars>>
notPromote == <<redVars, hoistVars, lowerVars, returnVars, tbbVars, nameVars, engineVars, cacheVars,
                pipeVars, castVars, thunkVars, abiVars, escapeVars, nrtVars, singleVars>>
notNrt == <<redVars, hoistVars, lowerVars, returnVars, tbbVars, nameVars, engineVars, cacheVars,
            pipeVars, castVars, thunkVars, abiVars, escapeVars, promoteVars, singleVars>>
notSingle == <<redVars, hoistVars, lowerVars, returnVars, tbbVars, nameVars, engineVars, cacheVars,
               pipeVars, castVars, thunkVars, abiVars, escapeVars, promoteVars, nrtVars>>

\* no call has ended yet
NoOutcome == [kind |-> "none", msg |-> ""]

\* the idle values of a part's variables
RedIdle ==
  /\ rop = "addi"
  /\ initVal = 0
  /\ data = <<>>
  /\ mc = 0
  /\ reduceVar = <<>>
  /\ pc = "idle"
  /\ idx = 0
  /\ total = 0
  /\ assigned = {}
  /\ th = <<>>
  /\ accessLog = {}
  /\ result = 0

HoistIdle ==
  /\ hNest = <<>>
  /\ hOps = {}
  /\ hAttr = [present |-> FALSE, val |-> 0]
  /\ hFunc = FALSE
  /\ hBefore = {}
  /\ hTarget = 0
  /\ hResult = "none"

LowerIdle ==
  /\ lShape = "single"
  /\ lLoops = <<>>
  /\ lWalk = <<>>
  /\ lTrips = 0
  /\ lThreads = 0
  /\ lState = <<>>
  /\ lAnchor = <<>>
  /\ lPhase = "idle"
  /\ lIter = 0
  /\ lProc = <<>>
  /\ lCtx = <<>>
  /\ lLog = {}

ReturnIdle ==
  /\ rPrivate = FALSE
  /\ rModule = FALSE
  /\ rOperands = <<>>
  /\ rPhase = "idle"
  /\ rOps = <<>>
  /\ rFuncs = {}
  /\ rBefore = [ops |-> <<>>, funcs |-> {}]
  /\ rResult = "none"
  /\ rDiag = <<>>

TbbIdle ==
  /\ tOrig = <<>>
  /\ tChain = <<>>
  /\ tAttr = [func |-> FALSE, present |-> FALSE, val |-> 0]
  /\ tWork = {}
  /\ tChanged = FALSE
  /\ tPhase = "idle"
  /\ tRewrites = <<>>
  /\ tLog = {}

NameIdle ==
  /\ nSyms = <<>>
  /\ nLog = <<>>

EngineIdle ==
  /\ eIn = <<>>
  /\ eOut = NoOutcome
  /\ eLook = {}

CacheIdle ==
  /\ cEnabled = FALSE
  /\ cId = <<>>
  /\ cMods = <<>>
  /\ cTh = <<>>
  /\ cCache = {}
  /\ cObj = <<>>
  /\ cServed = <<>>

PipeIdle ==
  /\ pDone = {}
  /\ pCur = ""
  /\ pIdx = 0
  /\ pRan = <<>>
  /\ pFunc = <<>>
  /\ pStatus = "idle"

CastIdle ==
  /\ kFamily = "layout"
  /\ kIter = "T"
  /\ kChain = <<>>
  /\ kInit = 0
  /\ kRes = 0
  /\ kPhase = "idle"
  /\ kRun = 0
  /\ kCount = 0

ThunkIdle ==
  /\ uSyms = <<>>
  /\ uLog = <<>>
  /\ uAssert = FALSE
  /\ uPhase = "idle"

AbiIdle ==
  /\ aSyms = <<>>
  /\ aIdx = 0
  /\ aPhase = "idle"

EscapeIdle ==
  /\ xUses = <<>>
  /\ xRes = "idle"

PromoteIdle ==
  /\ mProg = <<>>
  /\ mOut = <<>>
  /\ mPhase = "idle"

NrtIdle ==
  /\ nrtRefcnt = 0
  /\ nrtHeld = <<>>
  /\ nrtPc = <<>>
  /\ nrtRes = <<>>
  /\ nrtDtor = <<>>

SingleIdle ==
  /\ wBuf = <<>>
  /\ wBlock = <<>>
  /\ wOut = <<>>
  /\ wRes = "idle"

\* the content of a buffer element that was never stored (no value in Vals)
Undef == 0 - 1

(***************************************************************************)
(* Integer arithmetic of width Width.                                      *)
(***************************************************************************)
RECURSIVE Pow2(_)
Pow2(n) == IF n = 0 THEN 1 ELSE 2 * Pow2(n - 1)

Modulus == Pow2(Width)
Vals == 0 .. (Modulus - 1)

\* the values the model feeds to a reduction: 0, 1, the signed minimum and
\* all ones
DataVals == {0, 1, Modulus \div 2, Modulus - 1}

Signed(a) == IF a >= Modulus \div 2 THEN a - Modulus ELSE a

RECURSIVE BitOp(_, _, _, _)
BitOp(f, a, b, w) ==
  IF w = 0 THEN 0
  ELSE LET x == a % 2
           y == b % 2
           bit == CASE f = "and" -> IF x = 1 /\ y = 1 THEN 1 ELSE 0
                    [] f = "or"  -> IF x = 1 \/ y = 1 THEN 1 ELSE 0
                    [] f = "xor" -> IF x # y THEN 1 ELSE 0
       IN bit + 2 * BitOp(f, a \div 2, b \div 2, w - 1)

\* arith operations that may be the single operation of a reduce region
NeutralOps == {"addi", "muli", "andi", "ori", "xori",
               "maxsi", "minsi", "maxui", "minui"}

\* the reduce region applied to (lhs, rhs)
ApplyReduce(o, a, b) ==
  CASE o = "addi"  -> (a + b) % Modulus
    [] o = "muli"  -> (a * b) % Modulus
    [] o = "andi"  -> BitOp("and", a, b, Width)
    [] o = "ori"   -> BitOp("or", a, b, Width)
    [] o = "xori"  -> BitOp("xor", a, b, Width)
    [] o = "maxsi" -> IF Signed(a) >= Signed(b) THEN a ELSE b
    [] o = "minsi" -> IF Signed(a) <= Signed(b) THEN a ELSE b
    [] o = "maxui" -> IF a >= b THEN a ELSE b
    [] o = "minui" -> IF a <= b THEN a ELSE b
    [] o = "subi"  -> (a - b) % Modulus

\* std::nullopt of getNeutralElement
NoNeutral == 0 - 2

\* a neutral element that is zero for every operation
getNeutralElementZero(o) == 0

\* mlir::arith::getNeutralElement as called by getReduceInitVal
getNeutralElement(o) ==
  CASE o = "addi"  -> 0
    [] o = "muli"  -> 1
    [] o = "andi"  -> Modulus - 1
    [] o = "ori"   -> 0
    [] o = "xori"  -> 0
    [] o = "maxsi" -> Modulus \div 2
    [] o = "minsi" -> (Modulus \div 2) - 1
    [] o = "maxui" -> 0
    [] o = "minui" -> Modulus - 1
    [] OTHER       -> NoNeutral


(***************************************************************************)
(* ParallelToTbb: execution of the emitted code.                           *)
(*   alloca ; scf.for (init) ; numba_util.parallel ; scf.for (combine)     *)
(***************************************************************************)
SeqsUpTo(S, n) == UNION {[1 .. k -> S] : k \in 0 .. n}

Threads == 0 .. (mc - 1)

IdleThread == [st |-> "idle", lo |-> 0, hi |-> 0, acc |-> Undef, n |-> 0]

\* a load of a buffer element: an element never stored holds any value
ReadVals(v) == IF v = Undef THEN Vals ELSE {v}

\* an upper bound that leaves out the last slot
reduceUpperBoundShort == mc - 1

\* upper bound of the init and of the combine scf.for (reduceUpperBound)
reduceUpperBound == mc

\* the value reduceInitBodyBuilder stores into every slot
reduceInitVal(o) == getNeutralElement(o)

\* index of the memref.load at the start of the parallel body
BodyLoadIndex(threadIndex) == threadIndex

\* a store that ignores the thread index
BodyStoreIndexZero(threadIndex) == 0

\* index of the memref.store at the end of the parallel body
BodyStoreIndex(threadIndex) == threadIndex

\* the cloned scf.parallel with its bounds rebound to [lo, hi) and its
\* init value replaced by acc
RECURSIVE ClonedLoop(_, _, _, _, _)
ClonedLoop(o, d, acc, lo, hi) ==
  IF lo >= hi THEN acc
  ELSE ClonedLoop(o, d, ApplyReduce(o, acc, d[lo + 1]), lo + 1, hi)

\* reduceBodyBuilder: argument 0 of the reduce region is the iter_arg,
\* argument 1 the value loaded from the buffer
CombineBody(o, arg, prevVal) == ApplyReduce(o, arg, prevVal)

RedInit ==
  /\ rop \in NeutralOps
  /\ initVal \in DataVals
  /\ data \in SeqsUpTo(DataVals, MaxIter)
  /\ mc \in 2 .. MaxConc
  /\ reduceVar = [i \in 0 .. (mc - 1) |-> Undef]
  /\ pc = "initLoop"
  /\ idx = 0
  /\ total = Undef
  /\ assigned = {}
  /\ th = [t \in 0 .. (mc - 1) |-> IdleThread]
  /\ accessLog = {}
  /\ result = Undef

\* one iteration of the init scf.for
InitLoopStep ==
  /\ pc = "initLoop"
  /\ idx < reduceUpperBound
  /\ reduceVar' = [reduceVar EXCEPT ![idx] = reduceInitVal(rop)]
  /\ idx' = idx + 1
  /\ pc' = IF idx + 1 >= reduceUpperBound THEN "parallel" ELSE pc
  /\ UNCHANGED <<rop, initVal, data, mc, total, assigned, th, accessLog,
                 result>>
  /\ UNCHANGED notRed

\* the runtime invokes the body on thread t with the slice [lo, hi); the
\* body first loads the previous value of its slot
BodyLoad(t, lo, hi) ==
  /\ pc = "parallel"
  /\ th[t].st = "idle"
  /\ lo < hi
  /\ (lo .. (hi - 1)) \cap assigned = {}
  /\ \E v \in ReadVals(reduceVar[BodyLoadIndex(t)]) :
       th' = [th EXCEPT ![t] = [st |-> "loaded", lo |-> lo, hi |-> hi,
                                acc |-> v,
                                n |-> IF @.n < 2 THEN @.n + 1 ELSE @.n]]
  /\ assigned' = assigned \cup (lo .. (hi - 1))
  /\ accessLog' = accessLog \cup {<<t, BodyLoadIndex(t)>>}
  /\ UNCHANGED <<rop, initVal, data, mc, reduceVar, pc, idx, total, result>>
  /\ UNCHANGED notRed

\* the body runs the cloned loop over its slice and stores the result
BodyStore(t) ==
  /\ pc = "parallel"
  /\ th[t].st = "loaded"
  /\ reduceVar' = [reduceVar EXCEPT ![BodyStoreIndex(t)] =
                     ClonedLoop(rop, data, th[t].acc, th[t].lo, th[t].hi)]
  /\ th' = [th EXCEPT ![t] = [@ EXCEPT !.st = "idle", !.acc = Undef,
                                        !.lo = 0, !.hi = 0]]
  /\ accessLog' = accessLog \cup {<<t, BodyStoreIndex(t)>>}
  /\ UNCHANGED <<rop, initVal, data, mc, pc, idx, total, assigned, result>>
  /\ UNCHANGED notRed

\* nmrtParallelFor returns once every iteration has been executed
ParallelDone ==
  /\ pc = "parallel"
  /\ assigned = 0 .. (Len(data) - 1)
  /\ \A t \in Threads : th[t].st = "idle"
  /\ pc' = "combine"
  /\ idx' = 0
  /\ total' = initVal
  /\ UNCHANGED <<rop, initVal, data, mc, reduceVar, assigned, th, accessLog,
                 result>>
  /\ UNCHANGED notRed

\* one iteration of the combine scf.for; its results replace the loop's
CombineStep ==
  /\ pc = "combine"
  /\ idx < reduceUpperBound
  /\ \E prevVal \in ReadVals(reduceVar[idx]) :
       /\ total' = CombineBody(rop, total, prevVal)
       /\ result' = IF idx + 1 >= reduceUpperBound THEN total' ELSE result
  /\ idx' = idx + 1
  /\ pc' = IF idx + 1 >= reduceUpperBound THEN "done" ELSE pc
  /\ UNCHANGED <<rop, initVal, data, mc, reduceVar, assigned, th, accessLog>>
  /\ UNCHANGED notRed

RedNext ==
  \/ InitLoopStep
  \/ \E t \in Threads : \E lo \in 0 .. Len(data) : \E hi \in 0 .. Len(data) :
       BodyLoad(t, lo, hi)
  \/ \E t \in Threads : BodyStore(t)
  \/ ParallelDone
  \/ CombineStep


(***************************************************************************)
(* Claims about the emitted reduction code.                                *)
(***************************************************************************)
\* the original scf.parallel executed sequentially
RECURSIVE SeqAccum(_, _, _)
SeqAccum(o, acc, d) ==
  IF d = <<>> THEN acc
  ELSE SeqAccum(o, ApplyReduce(o, acc, Head(d)), Tail(d))

RECURSIVE CombinedUpTo(_)
CombinedUpTo(k) ==
  IF k = 0 THEN initVal
  ELSE ApplyReduce(rop, CombinedUpTo(k - 1), reduceVar[k - 1])

\* what C11 says of each state of the emitted code
C11_Stage ==
  /\ pc = "initLoop" =>
       /\ \A i \in Threads :
            reduceVar[i] = IF i < idx THEN getNeutralElement(rop) ELSE Undef
       /\ assigned = {}
       /\ accessLog = {}
       /\ total = Undef
  /\ pc = "parallel" =>
       /\ idx = mc
       /\ \A i \in Threads : reduceVar[i] # Undef
       /\ total = Undef
  /\ pc \in {"combine", "done"} =>
       /\ assigned = 0 .. (Len(data) - 1)
       /\ \A t \in Threads : th[t].st = "idle"
       /\ idx <= mc
       /\ total = CombinedUpTo(idx)
  /\ pc = "done" => idx = mc /\ result = total

\* the emitted operations follow each other once, in program order
C11_Step ==
  pc' # pc =>
    <<pc, pc'>> \in {<<"initLoop", "parallel">>, <<"parallel", "combine">>,
                     <<"combine", "done">>}

\* C11: the code replacing the loop runs one init loop that stores the
\* neutral element into slots 0 .. maxConcurrency - 1, then the one
\* numba_util.parallel over the whole original iteration space, then one
\* combine loop that starts from the original initial value and visits the
\* slots in ascending order 0 .. maxConcurrency - 1.
C11_InitParallelCombineInOrder == [] C11_Stage /\ [][C11_Step]_vars

\* the combine loop has finished after two threads ran slices of the
\* parallel construct
C11_Witness ==
  /\ pc = "done"
  /\ Len(data) >= 2
  /\ \E s \in Threads : \E t \in Threads :
       s # t /\ <<s, s>> \in accessLog /\ <<t, t>> \in accessLog


(***************************************************************************)
(* HoistBufferAllocs.                                                      *)
(*                                                                         *)
(* The function is the chain hNest of operations around the allocation     *)
(* (hNest[1] outermost) plus the set hOps of the other operations.  An     *)
(* operation of hOps lies in the body block of ancestor lvl (0: the        *)
(* function body) at position pos; in a block that holds the next          *)
(* ancestor, negative positions are before it and positive ones after it.  *)
(* An operation's id is also the id of the value it defines.               *)
(***************************************************************************)
HoistKinds == {"for", "while", "scf_parallel", "util_parallel", "if"}

\* mlir::isa<scf::WhileOp, scf::ForOp, scf::ParallelOp, numba::util::ParallelOp>
IsLoopOp(k) == k \in {"while", "for", "scf_parallel", "util_parallel"}

\* ShapedType::kDynamic
Dyn == 0 - 1

NoType == [shape |-> <<>>, layout |-> "none"]

MkOp(id, name, src, args, syms, lvl, pos, type) ==
  [id |-> id, name |-> name, src |-> src, args |-> args, syms |-> syms,
   lvl |-> lvl, pos |-> pos, type |-> type]

OpById(ops, id) == CHOOSE o \in ops : o.id = id

\* op->getUsers()
Users(ops, id) == {o \in ops : id \in o.args}

\* mlir::ViewLikeOpInterface
IsViewLike(o) == o.name \in {"view", "subview", "cast"}

\* value ids of the operations of the function as the front end leaves it
AllocId == 1
SizeId == 2
LoadId == 3
StoreId == 4
DeallocId == 5
ViewId == 6
ViewLoadId == 7
ViewDeallocId == 8
CallId == 9
\* the thread-index block argument of the numba_util.parallel at level j
ThreadIndexId(j) == 10 + j
\* value ids of the operations the pattern creates
NewAllocId == 21
DimId == 22
SubViewId == 23
ApplyOffsetId == 24
CastId == 25
NewDeallocId == 26

\* positions inside a block
PosBlockArg == 0 - 10
PosBodyStart == 0 - 9
PosDef == 0 - 5
PosBefore == 0 - 1
PosAfter == 1

UseMenu == {"load", "store", "dealloc", "view_load", "view_dealloc", "call"}

\* the users of the allocation, in the block of the allocation
UserOps(uses, n) ==
      (IF "load" \in uses
         THEN {MkOp(LoadId, "load", AllocId, {AllocId}, {}, n, 3, NoType)}
         ELSE {})
      \cup (IF "store" \in uses
         THEN {MkOp(StoreId, "store", AllocId, {AllocId}, {}, n, 4, NoType)}
         ELSE {})
      \cup (IF "dealloc" \in uses
         THEN {MkOp(DeallocId, "dealloc", AllocId, {AllocId}, {}, n, 9, NoType)}
         ELSE {})
      \cup (IF "view_load" \in uses \/ "view_dealloc" \in uses
         THEN {MkOp(ViewId, "view", AllocId, {AllocId}, {}, n, 5, NoType)}
         ELSE {})
      \cup (IF "view_load" \in uses
         THEN {MkOp(ViewLoadId, "load", ViewId, {ViewId}, {}, n, 6, NoType)}
         ELSE {})
      \cup (IF "view_dealloc" \in uses
         THEN {MkOp(ViewDeallocId, "dealloc", ViewId, {ViewId}, {}, n, 8,
                    NoType)}
         ELSE {})
      \cup (IF "call" \in uses
         THEN {MkOp(CallId, "call", 0, {AllocId}, {}, n, 7, NoType)}
         ELSE {})

\* the thread-index block arguments of the numba_util.parallel ancestors
ThreadIndexOps(nest) ==
  {MkOp(ThreadIndexId(j), "blockarg", 0, {}, {}, j, PosBlockArg, NoType) :
     j \in {i \in 1 .. Len(nest) : nest[i] = "util_parallel"}}

\* a function with one memref.alloc below the ancestors nest.  sizeLvl < 0:
\* the type is memref<10x10>; otherwise memref<?x10> and the dynamic size is
\* defined in the body of ancestor sizeLvl.  symbolic: the allocation has
\* symbol operands.
FunctionOps(nest, sizeLvl, symbolic, uses) ==
  LET n == Len(nest)
      type == [shape |-> IF sizeLvl < 0 THEN <<10, 10>> ELSE <<Dyn, 10>>,
               layout |-> "identity"]
      sizes == IF sizeLvl < 0 THEN {} ELSE {SizeId}
  IN  {MkOp(AllocId, "alloc", 0, sizes,
            IF symbolic THEN {SizeId} ELSE {}, n, 0, type)}
      \cup (IF sizeLvl < 0 /\ ~symbolic THEN {}
            ELSE {MkOp(SizeId, "value", 0, {}, {},
                       IF sizeLvl < 0 THEN 0 ELSE sizeLvl, PosDef, NoType)})
      \cup UserOps(uses, n)
      \cup ThreadIndexOps(nest)

HoistInit ==
  /\ hNest \in SeqsUpTo(HoistKinds, MaxDepth)
  /\ hAttr \in {[present |-> FALSE, val |-> 0]}
               \cup {[present |-> TRUE, val |-> v] : v \in 0 .. MaxConc}
  /\ \E sizeLvl \in (0 - 1) .. Len(hNest) :
       \E shape \in {"plain", "symbolic", "nofunc"} :
         \E uses \in {u \in SUBSET UseMenu : Cardinality(u) <= 2} :
           /\ hFunc = (shape # "nofunc")
           /\ hOps = FunctionOps(hNest, sizeLvl, shape = "symbolic", uses)
  /\ hBefore = {}
  /\ hTarget = 0
  /\ hResult = "none"

\* a null Operation pointer in LoopInfo
NoLoop == 0

\* the level of the region in which value v is defined
DefLevel(ops, v) == OpById(ops, v).lvl

\* a check that never finds an operand inside the ancestor
isAnyArgDefinedInsideRegionsNever(ops, parent, op) == FALSE

\* isAnyArgDefinedInsideRegions(parent->getRegions(), op) for the ancestor
\* at level parent: its regions hold every block of level >= parent
isAnyArgDefinedInsideRegions(ops, parent, op) ==
  \E arg \in op.args : DefLevel(ops, arg) >= parent

\* a walk that keeps the first (innermost) loop it meets
RECURSIVE getLoopInfoWalkInnermost(_, _, _, _, _)
getLoopInfoWalkInnermost(ops, nest, op, parent, ret) ==
  IF parent < 1 THEN ret
  ELSE IF isAnyArgDefinedInsideRegions(ops, parent, op) THEN ret
  ELSE LET r1 == IF IsLoopOp(nest[parent]) /\ ret.outermostLoop = NoLoop
                   THEN [ret EXCEPT !.outermostLoop = parent]
                   ELSE ret
           r2 == IF r1.innermostParallel = NoLoop
                      /\ nest[parent] = "util_parallel"
                   THEN [r1 EXCEPT !.innermostParallel = parent]
                   ELSE r1
       IN  getLoopInfoWalkInnermost(ops, nest, op, parent - 1, r2)

\* the while loop of getLoopInfo, from ancestor parent upwards
RECURSIVE getLoopInfoWalk(_, _, _, _, _)
getLoopInfoWalk(ops, nest, op, parent, ret) ==
  IF parent < 1 THEN ret
  ELSE IF isAnyArgDefinedInsideRegions(ops, parent, op) THEN ret
  ELSE LET r1 == IF IsLoopOp(nest[parent])
                   THEN [ret EXCEPT !.outermostLoop = parent]
                   ELSE ret
           r2 == IF r1.innermostParallel = NoLoop
                      /\ nest[parent] = "util_parallel"
                   THEN [r1 EXCEPT !.innermostParallel = parent]
                   ELSE r1
       IN  getLoopInfoWalk(ops, nest, op, parent - 1, r2)

\* getLoopInfo: found = FALSE is std::nullopt
getLoopInfo(ops, nest, op) ==
  LET ret == getLoopInfoWalk(ops, nest, op, op.lvl,
               [outermostLoop |-> NoLoop, innermostParallel |-> NoLoop])
  IN  [found |-> ret.outermostLoop # NoLoop,
       outermostLoop |-> ret.outermostLoop,
       innermostParallel |-> ret.innermostParallel]

\* a check that does not follow the views
canResultEscapeShallow(ops, id, original) ==
  \E user \in Users(ops, id) :
    /\ ~(user.name \in {"load", "store"})
    /\ ~(original /\ user.name = "dealloc")
    /\ ~IsViewLike(user)

\* canResultEscape(op, original)
RECURSIVE canResultEscape(_, _, _)
canResultEscape(ops, id, original) ==
  \E user \in Users(ops, id) :
    /\ ~(user.name \in {"load", "store"})
    /\ ~(original /\ user.name = "dealloc")
    /\ (IsViewLike(user) => canResultEscape(ops, user.id, FALSE))

\* a needParallel that ignores the value of the attribute
needParallelAnyValue(loopInfo, attr) == loopInfo.innermostParallel # NoLoop

\* needParallel of HoistBufferAllocs::matchAndRewrite
needParallel(loopInfo, attr) ==
  loopInfo.innermostParallel # NoLoop /\ attr.val > 0

\* the type of the hoisted allocation
memrefType(oldType, need, attr) ==
  IF need
    THEN [shape |-> <<attr.val>> \o oldType.shape, layout |-> "identity"]
    ELSE oldType

\* SubViewOp::inferRankReducedResultType: the old shape behind the dynamic
\* offset threadIndex
subViewType(oldType) == [shape |-> oldType.shape, layout |-> "offset"]

\* a pattern that erases no dealloc user
ErasedDeallocsNone(ops, op) == {}

\* the dealloc users the pattern erases
ErasedDeallocs(ops, op) == {u \in Users(ops, op.id) : u.name = "dealloc"}

\* the operations created at the start of the parallel body; the last one
\* defines view
ViewOps(op, loopInfo, newType) ==
  LET p == loopInfo.innermostParallel
      oldType == op.type
      dims == IF Dyn \in {oldType.shape[i] : i \in DOMAIN oldType.shape}
                THEN {MkOp(DimId, "dim", 0, {NewAllocId}, {}, p,
                           PosBodyStart, NoType)}
                ELSE {}
      sub == MkOp(SubViewId, "subview", NewAllocId,
                  {NewAllocId, ThreadIndexId(p)} \cup {d.id : d \in dims}, {},
                  p, PosBodyStart + 1, subViewType(oldType))
  IN  IF sub.type # oldType
        THEN dims \cup {sub,
               MkOp(ApplyOffsetId, "apply_offset", SubViewId, {SubViewId}, {},
                    p, PosBodyStart + 2, oldType),
               MkOp(CastId, "cast", ApplyOffsetId, {ApplyOffsetId}, {}, p,
                    PosBodyStart + 3, oldType)}
        ELSE dims \cup {sub}

\* the value that replaces the allocation
ViewValue(op, need) ==
  IF ~need THEN NewAllocId
  ELSE IF subViewType(op.type) # op.type THEN CastId ELSE SubViewId

\* rewriter.replaceOp(op, view) on one remaining operation
ReplaceUses(o, old, new) ==
  [o EXCEPT !.args = IF old \in @ THEN (@ \ {old}) \cup {new} ELSE @,
            !.src = IF @ = old THEN new ELSE @]

\* where the pattern puts the deallocation of the hoisted buffer
DeallocPos == PosAfter

\* the function after a successful HoistBufferAllocs::matchAndRewrite
HoistRewrite(ops, op, loopInfo, attr) ==
  LET need == needParallel(loopInfo, attr)
      newType == memrefType(op.type, need, attr)
      kept == (ops \ ErasedDeallocs(ops, op)) \ {op}
      newAlloc == MkOp(NewAllocId, "alloc", 0, op.args, {},
                       loopInfo.outermostLoop - 1, PosBefore, newType)
      viewOps == IF need THEN ViewOps(op, loopInfo, newType) ELSE {}
      newDealloc == MkOp(NewDeallocId, "dealloc", NewAllocId, {NewAllocId},
                         {}, loopInfo.outermostLoop - 1, DeallocPos, NoType)
  IN  {ReplaceUses(o, op.id, ViewValue(op, need)) : o \in kept}
      \cup {newAlloc, newDealloc} \cup viewOps

\* the preconditions of HoistBufferAllocs::matchAndRewrite, in its order
HoistMatches(ops, nest, op, hasFunc, attr) ==
  /\ op.syms = {}
  /\ ~canResultEscape(ops, op.id, TRUE)
  /\ getLoopInfo(ops, nest, op).found
  /\ hasFunc
  /\ ~(getLoopInfo(ops, nest, op).innermostParallel # NoLoop
       /\ ~attr.present)

\* HoistBufferAllocs::matchAndRewrite on a memref.alloc that matches
HoistSuccess(op) ==
  /\ op \in hOps
  /\ op.name = "alloc"
  /\ HoistMatches(hOps, hNest, op, hFunc, hAttr)
  /\ hBefore' = hOps
  /\ hTarget' = op.id
  /\ hOps' = HoistRewrite(hOps, op, getLoopInfo(hOps, hNest, op), hAttr)
  /\ hResult' = "success"
  /\ UNCHANGED <<hNest, hAttr, hFunc>>
  /\ UNCHANGED notHoist

\* HoistBufferAllocs::matchAndRewrite on a memref.alloc it declines
HoistFailure(op) ==
  /\ op \in hOps
  /\ op.name = "alloc"
  /\ ~HoistMatches(hOps, hNest, op, hFunc, hAttr)
  /\ hBefore' = hOps
  /\ hTarget' = op.id
  /\ hResult' = "failure"
  /\ UNCHANGED <<hNest, hOps, hAttr, hFunc>>
  /\ UNCHANGED notHoist

HoistNext ==
  \/ \E op \in hOps : HoistSuccess(op)
  \/ \E op \in hOps : HoistFailure(op)

(***************************************************************************)
(* Execution of a function of the hoisting model: the sequence of buffer   *)
(* events of one call, ancestor j running its body trips[j] times.         *)
(***************************************************************************)
TripSets(nest) ==
  {f \in [1 .. Len(nest) -> 0 .. MaxTrip] :
     \A j \in 1 .. Len(nest) : nest[j] = "if" => f[j] <= 1}

\* the allocation a memref value is a view of
RECURSIVE RootOf(_, _)
RootOf(ops, v) ==
  LET o == OpById(ops, v)
  IN  IF o.name = "alloc" \/ o.src = 0 THEN v ELSE RootOf(ops, o.src)

OpEvents(ops, o) ==
  CASE o.name = "alloc" -> <<[ev |-> "alloc", buf |-> o.id]>>
    [] o.name \in {"load", "store"} ->
         <<[ev |-> "access", buf |-> RootOf(ops, o.src)]>>
    [] o.name = "dealloc" ->
         <<[ev |-> "dealloc", buf |-> RootOf(ops, o.src)]>>
    [] OTHER -> <<>>

\* the events of a set of operations of one block, in block order
RECURSIVE BlockEvents(_, _)
BlockEvents(ops, S) ==
  IF S = {} THEN <<>>
  ELSE LET first == CHOOSE o \in S : \A q \in S : o.pos <= q.pos
       IN  OpEvents(ops, first) \o BlockEvents(ops, S \ {first})

RECURSIVE Repeat(_, _)
Repeat(s, k) == IF k = 0 THEN <<>> ELSE s \o Repeat(s, k - 1)

\* one execution of the body block of ancestor l (0: the function body)
RECURSIVE ExecBlock(_, _, _, _)
ExecBlock(ops, nest, trips, l) ==
  LET here == {o \in ops : o.lvl = l}
  IN  IF l = Len(nest) THEN BlockEvents(ops, here)
      ELSE BlockEvents(ops, {o \in here : o.pos < 0})
           \o Repeat(ExecBlock(ops, nest, trips, l + 1), trips[l + 1])
           \o BlockEvents(ops, {o \in here : o.pos > 0})

ExecFunction(ops, nest, trips) == ExecBlock(ops, nest, trips, 0)

(***************************************************************************)
(* Claims about HoistBufferAllocs.                                         *)
(***************************************************************************)
AllocCount(trace) ==
  Cardinality({i \in DOMAIN trace : trace[i].ev = "alloc"})

\* the allocation the last application rewrote, as it was before
HoistedFrom == OpById(hBefore, hTarget)

\* the allocation that exists after a successful application
HoistedTo == CHOOSE o \in hOps : o.name = "alloc"

\* the innermost level at or below which an operand of the rewritten
\* allocation is defined (0: none is defined inside any ancestor)
OperandLevel ==
  LET ls == {OpById(hBefore, v).lvl : v \in HoistedFrom.args}
  IN  IF ls = {} THEN 0 ELSE CHOOSE m \in ls : \A x \in ls : x <= m

\* the outermost enclosing loop that holds no definition of an operand
SelectedLoop ==
  LET c == {j \in (OperandLevel + 1) .. HoistedFrom.lvl :
              hNest[j] \in {"for", "while", "scf_parallel", "util_parallel"}}
  IN  CHOOSE j \in c : \A k \in c : j <= k

\* how often one call of the function reaches ancestor j
RECURSIVE ReachCount(_, _)
ReachCount(trips, j) ==
  IF j <= 1 THEN 1 ELSE trips[j - 1] * ReachCount(trips, j - 1)

\* C4 as stated: after a hoist, one call of the function allocates the
\* buffer exactly once, whatever the trip counts of the enclosing loops.
C4_ExactlyOneAllocation ==
  hResult = "success" =>
    \A trips \in TripSets(hNest) :
      AllocCount(ExecFunction(hOps, hNest, trips)) = 1

\* C4 amended: after a hoist, the buffer is allocated exactly once each
\* time control reaches the selected loop (the outermost enclosing loop
\* that holds no definition of an operand of the allocation), whatever the
\* trip counts of that loop and of the loops inside it.
C4_OneAllocationPerLoopEntry ==
  hResult = "success" =>
    \A trips \in TripSets(hNest) :
      AllocCount(ExecFunction(hOps, hNest, trips))
        = ReachCount(trips, SelectedLoop)

\* an allocation hoisted out of two nested loops
C4_Witness ==
  /\ hResult = "success"
  /\ Len(hNest) = 2
  /\ hNest[1] = "for"
  /\ hNest[2] = "while"
  /\ HoistedFrom.lvl = 2
  /\ HoistedTo.lvl = 0

\* every allocated instance is freed exactly once, after all its accesses
RECURSIVE WellFreed(_, _)
WellFreed(trace, live) ==
  IF trace = <<>> THEN ~live
  ELSE LET e == Head(trace)
       IN  CASE e.ev = "alloc" -> ~live /\ WellFreed(Tail(trace), TRUE)
             [] e.ev = "access" -> live /\ WellFreed(Tail(trace), live)
             [] e.ev = "dealloc" -> live /\ WellFreed(Tail(trace), FALSE)

\* C5: after a hoist no deallocation of the original allocation remains,
\* exactly one deallocation of the hoisted buffer exists, immediately after
\* the selected loop, and in every execution each allocated buffer is freed
\* exactly once and only after every access to it.
C5_SingleDeallocAfterLoop ==
  hResult = "success" =>
    LET deallocs == {o \in hOps : o.name = "dealloc"}
    IN  /\ \A o \in hOps : ~(hTarget \in o.args) /\ o.id # hTarget
        /\ Cardinality(deallocs) = 1
        /\ \A d \in deallocs :
             /\ d.src = HoistedTo.id
             /\ d.lvl = SelectedLoop - 1
             /\ d.pos > 0
             /\ \A o \in hOps : o.lvl = d.lvl /\ o.pos > 0 => d.pos <= o.pos
        /\ \A trips \in TripSets(hNest) :
             WellFreed(ExecFunction(hOps, hNest, trips), FALSE)

\* a hoisted allocation that had a deallocation and a load in the loop
C5_Witness ==
  /\ hResult = "success"
  /\ \E o \in hBefore : o.name = "dealloc" /\ hTarget \in o.args
  /\ \E o \in hOps : o.name = "load"
  /\ Len(hNest) = 2

\* the hoisted allocation has the leading dimension and a per-thread subview
\* at offset thread index stands in for the original allocation
HasLeadingDim ==
  LET p == CHOOSE j \in 1 .. HoistedFrom.lvl :
             /\ hNest[j] = "util_parallel"
             /\ \A k \in (j + 1) .. HoistedFrom.lvl :
                  hNest[k] # "util_parallel"
  IN  /\ HoistedTo.type.shape = <<hAttr.val>> \o HoistedFrom.type.shape
      /\ \E sv \in hOps :
           /\ sv.name = "subview"
           /\ sv.src = HoistedTo.id
           /\ ThreadIndexId(p) \in sv.args
           /\ sv.lvl = p
           /\ sv.type.shape = HoistedFrom.type.shape
      /\ \A o \in hBefore :
           hTarget \in o.args /\ o.name # "dealloc" =>
             \E o2 \in hOps :
               /\ o2.id = o.id
               /\ ~(HoistedTo.id \in o2.args)
               /\ \E v \in o2.args : RootOf(hOps, v) = HoistedTo.id

\* the allocation is hoisted unchanged
HoistedUnchanged ==
  /\ HoistedTo.type = HoistedFrom.type
  /\ ~ \E sv \in hOps : sv.name = "subview"
  /\ \A o \in hBefore :
       hTarget \in o.args /\ o.name # "dealloc" =>
         \E o2 \in hOps : o2.id = o.id /\ HoistedTo.id \in o2.args

\* C6 as stated: the leading dimension and the subview appear exactly when
\* an enclosing explicit-parallel construct exists and the max-concurrency
\* attribute is positive; otherwise the allocation is hoisted unchanged.
C6_LeadingDimIffEnclosingParallel ==
  hResult = "success" =>
    IF /\ \E j \in 1 .. HoistedFrom.lvl : hNest[j] = "util_parallel"
       /\ hAttr.present
       /\ hAttr.val > 0
      THEN HasLeadingDim
      ELSE HoistedUnchanged

\* C6 amended: the leading dimension and the subview appear exactly when
\* the allocation is hoisted out of the body of an explicit-parallel
\* construct (the selected loop is that construct or contains it) and the
\* max-concurrency attribute is positive; in every other matching case,
\* also when a construct encloses the selected loop, the allocation is
\* hoisted unchanged.
C6_LeadingDimIffHoistedOutOfParallel ==
  hResult = "success" =>
    IF /\ \E j \in SelectedLoop .. HoistedFrom.lvl :
            hNest[j] = "util_parallel"
       /\ hAttr.present
       /\ hAttr.val > 0
      THEN HasLeadingDim
      ELSE HoistedUnchanged

\* an allocation hoisted out of an explicit-parallel construct with a
\* leading dimension of max concurrency
C6_Witness ==
  /\ hResult = "success"
  /\ hAttr.val = 2
  /\ HasLeadingDim
  /\ \E o \in hOps : o.name = "load"

\* the definition d of an operand dominates the operation u
Dominates(d, u) ==
  \/ d.lvl < u.lvl /\ d.pos < 0
  \/ d.lvl = u.lvl /\ d.pos < u.pos

\* C7: before and after every hoist each operand of every operation is
\* defined in an ancestor region or by a dominating operation.
C7_OperandsDominate ==
  \A o \in hOps : \A v \in o.args \cup o.syms :
    /\ \E d \in hOps : d.id = v
    /\ Dominates(OpById(hOps, v), o)

\* a hoist of a dynamically sized allocation out of an explicit-parallel
\* construct: the new allocation, the subview and the deallocation exist
C7_Witness ==
  /\ hResult = "success"
  /\ HoistedTo.args # {}
  /\ \E o \in hOps : o.name = "subview"
  /\ \E o \in hOps : o.name = "dim"
  /\ \E o \in hOps : o.name = "dealloc"
  /\ OperandLevel = 1

\* the leading indices of the hoisted buffer that an access to value v
\* touches when the thread that runs the body has thread index t: the
\* index t behind a subview at offset thread index, every index otherwise
RECURSIVE SlicesOf(_, _, _)
SlicesOf(ops, v, t) ==
  LET o == OpById(ops, v)
  IN  IF o.name = "subview" /\ \E j \in 1 .. MaxDepth : ThreadIndexId(j) \in o.args
      THEN {t}
      ELSE IF o.name = "alloc" \/ o.src = 0 THEN 0 .. MaxConc
      ELSE SlicesOf(ops, o.src, t)

\* C26: when an allocation has been hoisted out of the body of an
\* explicit-parallel construct, whatever the value of the max-concurrency
\* attribute, two threads with different thread indices touch no common
\* element of the hoisted buffer.
C26_ThreadsAccessOwnSlices ==
  (/\ hResult = "success"
   /\ \E j \in SelectedLoop .. HoistedFrom.lvl : hNest[j] = "util_parallel")
  => \A o1, o2 \in {o \in hOps : /\ o.name \in {"load", "store"}
                                  /\ RootOf(hOps, o.src) = HoistedTo.id} :
       \A t1, t2 \in 0 .. MaxConc :
         t1 # t2 =>
           SlicesOf(hOps, o1.src, t1) \cap SlicesOf(hOps, o2.src, t2) = {}

(***************************************************************************)
(* Runtime lowering: LowerParallel::matchAndRewrite and the code it emits. *)
(* The function holds one explicit-parallel construct (1), alone, inside a *)
(* sequential loop, or with a second construct (2) nested in its body.     *)
(***************************************************************************)

\* the values the operations inside a construct use, by number: 0 is
\* defined inside the construct; 1 and 4 are ordinary values defined outside
\* it, 2 a ConstantLike definition, 3 a value whose type does not convert
ValueKind(v) ==
  CASE v = 0 -> "inside"
    [] v = 2 -> "constant"
    [] v = 3 -> "opaque"
    [] OTHER -> "value"

\* the operands op->walk meets, in the order it meets them
WalkMenu ==
  {<<>>, <<1, 0, 1>>, <<2, 1, 2>>, <<1, 3>>, <<4, 2, 0, 1, 4>>}

LowerShapes == {"single", "loop", "nested"}

\* op.getNumLoops() of construct 1 and of construct 2
LoopsMenu(shape) ==
  IF shape = "single" THEN {<<1, 0>>, <<2, 0>>}
  ELSE IF shape = "loop" THEN {<<1, 0>>}
  ELSE {<<2, 1>>}

Constructs == IF lShape = "nested" THEN {1, 2} ELSE {1}

\* processes of the generated code: 0 runs the function, t in 1..MaxConc an
\* invocation of the function outlined from construct 1, 10 * t + u an
\* invocation of the function outlined from construct 2 called by t
LowerProcs ==
  {0} \cup (1 .. MaxConc) \cup
  {10 * t + u : t \in 1 .. MaxConc, u \in 1 .. MaxConc}

Parent(q) == IF q < 10 THEN 0 ELSE q \div 10

\* the construct whose runtime call process p makes
Callee(p) == IF p = 0 THEN 1 ELSE 2

\* the construct whose outlined function process q runs (0: the function)
Outlined(q) == IF q = 0 THEN 0 ELSE IF q < 10 THEN 1 ELSE 2

Children(p) ==
  IF p = 0 THEN 1 .. lThreads ELSE {10 * p + u : u \in 1 .. lThreads}

\* isDefinedInside(value)
isDefinedInside(v) == ValueKind(v) = "inside"

\* the walk without contextVarsSet: every use of a value adds it again
RECURSIVE addContextVarEveryUse(_, _, _)
addContextVarEveryUse(walk, j, seen) ==
  IF j > Len(walk) THEN <<>>
  ELSE IF isDefinedInside(walk[j])
       THEN addContextVarEveryUse(walk, j + 1, seen)
       ELSE <<walk[j]>> \o addContextVarEveryUse(walk, j + 1, seen)

\* the walk over the operands with addContextVar: the values defined
\* outside the construct, each once (contextVarsSet), in discovery order
RECURSIVE addContextVar(_, _, _)
addContextVar(walk, j, seen) ==
  IF j > Len(walk) THEN <<>>
  ELSE IF isDefinedInside(walk[j]) \/ walk[j] \in seen
       THEN addContextVar(walk, j + 1, seen)
       ELSE <<walk[j]>> \o addContextVar(walk, j + 1, seen \cup {walk[j]})

IsConstantLike(v) == ValueKind(v) = "constant"

IsContextVar(v) == ~IsConstantLike(v)

\* contextVars: the discovered values that are not ConstantLike
contextVars(c) == SelectSeq(addContextVar(lWalk[c], 1, {}), IsContextVar)

\* contextConstants: the ConstantLike definitions, cloned into the outlined
\* function
contextConstants(c) ==
  SelectSeq(addContextVar(lWalk[c], 1, {}), IsConstantLike)

\* contextType: null when the type of a context variable does not convert
contextTypeOk(c) ==
  \A i \in 1 .. Len(contextVars(c)) : ValueKind(contextVars(c)[i]) # "opaque"

\* AllocaInsertionPoint(op): the first block of the function that holds op
\* when the pattern runs
allocaInsertionPoint(c) ==
  IF c = 2 /\ lState[1] = "lowered" THEN "outlined" ELSE "main"

\* the code emitted at the place of the construct: one store per context
\* variable, then the call of nmrtParallelFor
CallerCodeCallFirst(c) ==
  <<[op |-> "call", field |-> 0, pos |-> 0]>> \o
  [i \in 1 .. Len(contextVars(c)) |->
     [op |-> "store", field |-> i, pos |-> contextVars(c)[i]]]

CallerCode(c) ==
  [i \in 1 .. Len(contextVars(c)) |->
     [op |-> "store", field |-> i, pos |-> contextVars(c)[i]]] \o
  <<[op |-> "call", field |-> 0, pos |-> 0]>>

\* the entry block of the outlined function: one load per context variable,
\* mapped to the value the body used
OutlinedLoads(c) ==
  [i \in 1 .. Len(contextVars(c)) |-> [field |-> i, pos |-> contextVars(c)[i]]]

\* the code process p runs: the entry block of its outlined function, then
\* the cloned body, which holds the lowered construct 2 when it was nested
Code(p) ==
  IF p = 0 THEN CallerCode(1)
  ELSE <<[op |-> "loads", field |-> 0, pos |-> 0]>> \o
       (IF Outlined(p) = 1 /\ lShape = "nested" THEN CallerCode(2) ELSE <<>>)

\* op.getLowerBounds()[i], op.getUpperBounds()[i], op.getSteps()[i]
\* (which = 0, 1, 2) of construct c, dimension i counted from 1
OrigBound(c, i, which) == 1000 * c + 10 * i + which

\* the inputRanges array the caller fills: per dimension a struct with
\* lower bound, upper bound and step inserted at 0, 1, 2
InputRanges(c) ==
  [i \in 1 .. lLoops[c] |->
     <<OrigBound(c, i, 0), OrigBound(c, i, 1), OrigBound(c, i, 2)>>]

\* the thread index the runtime passes to invocation q
ThreadIndex(q) == (q % 10) - 1

\* the bounds array the runtime passes to invocation q: per dimension the
\* lower and the upper bound of its slice
RuntimeBounds(q) ==
  [i \in 1 .. lLoops[Outlined(q)] |-> <<20 * q + 2 * i, 20 * q + 2 * i + 1>>]

\* body arguments bound dimension by dimension: lower, upper, lower, ...
OutlinedArgsInterleaved(n, bounds, tid) ==
  [k \in 1 .. (2 * n + 1) |->
     IF k = 2 * n + 1 THEN tid
     ELSE bounds[(k + 1) \div 2][2 - (k % 2)]]

\* the values the entry block of the outlined function maps the 2N + 1
\* arguments of the original body to
OutlinedArgs(n, bounds, tid) ==
  [k \in 1 .. (2 * n + 1) |->
     IF k <= n THEN bounds[k][1]
     ELSE IF k <= 2 * n THEN bounds[k - n][2]
     ELSE tid]

\* the context struct process p stores to and passes: the alloca sits in the
\* frame of the function that holds the anchor
CtxOf(p) ==
  <<Callee(p), IF lAnchor[Callee(p)] = "main" THEN 0 ELSE p>>

CtxIds == {<<1, 0>>, <<2, 0>>} \cup {<<2, t>> : t \in 1 .. MaxConc}

\* the value captured value j has in the frame of p (it differs between
\* loop iterations and between invocations)
CapturedValue(p, j) == IF p = 0 THEN 100 * lIter + j ELSE 10 * p + j

\* the invocations that hold a pointer to struct x and have not returned
Holders(x) ==
  {q \in LowerProcs \ {0} :
     /\ lProc[q].st \in {"spawned", "run", "wait"}
     /\ CtxOf(Parent(q)) = x}

IdleProc == [st |-> "idle", pc |-> 0]

LowerInit ==
  /\ lShape \in LowerShapes
  /\ lLoops \in LoopsMenu(lShape)
  /\ lWalk \in [1 .. 2 -> WalkMenu]
  /\ lShape # "nested" => lWalk[2] = <<>>
  /\ lTrips \in 1 .. MaxTrip
  /\ lShape # "loop" => lTrips = 1
  /\ lThreads \in 1 .. MaxConc
  /\ lState = [c \in 1 .. 2 |-> IF c \in Constructs THEN "pending" ELSE "absent"]
  /\ lAnchor = [c \in 1 .. 2 |-> "none"]
  /\ lPhase = "compile"
  /\ lIter = 0
  /\ lProc = [p \in LowerProcs |-> IdleProc]
  /\ lCtx = [x \in CtxIds |-> <<>>]
  /\ lLog = {}

\* LowerParallel::matchAndRewrite succeeds on construct c. The greedy driver
\* visits an operation before the operations nested in it.
LowerSuccess(c) ==
  /\ lPhase = "compile"
  /\ lState[c] = "pending"
  /\ c = 2 => lState[1] # "pending"
  /\ contextTypeOk(c)
  /\ lState' = [lState EXCEPT ![c] = "lowered"]
  /\ lAnchor' = [lAnchor EXCEPT ![c] = allocaInsertionPoint(c)]
  /\ UNCHANGED <<lShape, lLoops, lWalk, lTrips, lThreads, lPhase, lIter, lProc, lCtx,
                 lLog>>
  /\ UNCHANGED notLower

\* LowerParallel::matchAndRewrite declines: contextType is null
LowerFailure(c) ==
  /\ lPhase = "compile"
  /\ lState[c] = "pending"
  /\ c = 2 => lState[1] # "pending"
  /\ ~contextTypeOk(c)
  /\ lState' = [lState EXCEPT ![c] = "declined"]
  /\ UNCHANGED <<lShape, lLoops, lWalk, lTrips, lThreads, lAnchor, lPhase, lIter,
                 lProc, lCtx, lLog>>
  /\ UNCHANGED notLower

\* the driver has converged; the generated code runs when every construct
\* was lowered (each context alloca holds no value yet)
LowerPassEnd ==
  /\ lPhase = "compile"
  /\ \A c \in Constructs : lState[c] # "pending"
  /\ IF \A c \in Constructs : lState[c] = "lowered"
     THEN /\ lPhase' = "run"
          /\ lIter' = 1
          /\ lProc' = [lProc EXCEPT ![0] = [st |-> "run", pc |-> 1]]
          /\ lCtx' = [x \in CtxIds |->
                        [i \in 1 .. Len(contextVars(x[1])) |-> Undef]]
     ELSE /\ lPhase' = "unlowered"
          /\ UNCHANGED <<lIter, lProc, lCtx>>
  /\ UNCHANGED <<lShape, lLoops, lWalk, lTrips, lThreads, lState, lAnchor, lLog>>
  /\ UNCHANGED notLower

Running(p) ==
  /\ lPhase = "run"
  /\ lProc[p].st = "run"
  /\ lProc[p].pc <= Len(Code(p))

Instr(p) == Code(p)[lProc[p].pc]

\* whether p has passed the call of its code
Called(p) ==
  \E k \in 1 .. Len(Code(p)) : Code(p)[k].op = "call" /\ k < lProc[p].pc

\* llvm.store of a captured value into its field
ExecStore(p) ==
  /\ Running(p)
  /\ Instr(p).op = "store"
  /\ lCtx' = [lCtx EXCEPT ![CtxOf(p)][Instr(p).field] =
                CapturedValue(p, Instr(p).pos)]
  /\ lLog' = lLog \cup
       {[kind |-> "store", who |-> p, ctx |-> CtxOf(p),
         live |-> Holders(CtxOf(p)), called |-> Called(p),
         got |-> <<>>, want |-> <<>>, args |-> <<>>]}
  /\ lProc' = [lProc EXCEPT ![p].pc = @ + 1]
  /\ UNCHANGED <<lShape, lLoops, lWalk, lTrips, lThreads, lState, lAnchor, lPhase,
                 lIter>>
  /\ UNCHANGED notLower

\* the call of nmrtParallelFor: the runtime invokes the outlined function
\* once per thread and returns when every invocation has returned
ExecCall(p) ==
  /\ Running(p)
  /\ Instr(p).op = "call"
  /\ lProc' = [q \in LowerProcs |->
                 IF q = p THEN [st |-> "wait", pc |-> lProc[p].pc]
                 ELSE IF q \in Children(p) THEN [st |-> "run", pc |-> 1]
                 ELSE lProc[q]]
  /\ lLog' = lLog \cup
       {[kind |-> "call", who |-> p, ctx |-> CtxOf(p),
         live |-> {}, called |-> FALSE, got |-> <<>>, want |-> <<>>,
         args |-> InputRanges(Callee(p))]}
  /\ UNCHANGED <<lShape, lLoops, lWalk, lTrips, lThreads, lState, lAnchor, lPhase,
                 lIter, lCtx>>
  /\ UNCHANGED notLower

\* the entry block of the outlined function loads every context variable
\* from the pointer it received
ExecLoads(q) ==
  /\ Running(q)
  /\ Instr(q).op = "loads"
  /\ LET x == CtxOf(Parent(q))
         loads == OutlinedLoads(Outlined(q))
     IN  lLog' = lLog \cup
           {[kind |-> "load", who |-> q, ctx |-> x,
             live |-> {}, called |-> FALSE,
             got |-> [i \in 1 .. Len(loads) |-> lCtx[x][loads[i].field]],
             want |-> [i \in 1 .. Len(loads) |->
                         CapturedValue(Parent(q), loads[i].pos)],
             args |-> OutlinedArgs(lLoops[Outlined(q)], RuntimeBounds(q),
                                   ThreadIndex(q))]}
  /\ lProc' = [lProc EXCEPT ![q].pc = @ + 1]
  /\ UNCHANGED <<lShape, lLoops, lWalk, lTrips, lThreads, lState, lAnchor, lPhase,
                 lIter, lCtx>>
  /\ UNCHANGED notLower

\* func.return of an outlined function
InvReturn(q) ==
  /\ q # 0
  /\ lPhase = "run"
  /\ lProc[q].st = "run"
  /\ lProc[q].pc > Len(Code(q))
  /\ lProc' = [lProc EXCEPT ![q] = [st |-> "done", pc |-> 0]]
  /\ UNCHANGED <<lShape, lLoops, lWalk, lTrips, lThreads, lState, lAnchor, lPhase,
                 lIter, lCtx, lLog>>
  /\ UNCHANGED notLower

\* nmrtParallelFor returns to its caller
ExecJoin(p) ==
  /\ lPhase = "run"
  /\ lProc[p].st = "wait"
  /\ \A q \in Children(p) : lProc[q].st = "done"
  /\ lProc' = [q \in LowerProcs |->
                 IF q = p THEN [st |-> "run", pc |-> lProc[p].pc + 1]
                 ELSE IF q \in Children(p) THEN IdleProc
                 ELSE lProc[q]]
  /\ UNCHANGED <<lShape, lLoops, lWalk, lTrips, lThreads, lState, lAnchor, lPhase,
                 lIter, lCtx, lLog>>
  /\ UNCHANGED notLower

\* the function reaches the end of the lowered code: the enclosing loop
\* runs it again, or the function returns
FunctionNext ==
  /\ lPhase = "run"
  /\ lProc[0].st = "run"
  /\ lProc[0].pc > Len(Code(0))
  /\ IF lIter < lTrips
     THEN /\ lIter' = lIter + 1
          /\ lProc' = [lProc EXCEPT ![0] = [st |-> "run", pc |-> 1]]
          /\ lPhase' = lPhase
     ELSE /\ lPhase' = "done"
          /\ lProc' = [lProc EXCEPT ![0] = [st |-> "done", pc |-> 0]]
          /\ lIter' = lIter
  /\ UNCHANGED <<lShape, lLoops, lWalk, lTrips, lThreads, lState, lAnchor, lCtx, lLog>>
  /\ UNCHANGED notLower

LowerNext ==
  \/ \E c \in Constructs : LowerSuccess(c)
  \/ \E c \in Constructs : LowerFailure(c)
  \/ LowerPassEnd
  \/ \E p \in LowerProcs : ExecStore(p)
  \/ \E p \in LowerProcs : ExecCall(p)
  \/ \E q \in LowerProcs : ExecLoads(q)
  \/ \E q \in LowerProcs : InvReturn(q)
  \/ \E p \in LowerProcs : ExecJoin(p)
  \/ FunctionNext

\* C3: the context struct is read-only for the outlined function: an
\* invocation only loads from the pointer it received; every store to a
\* struct is made by the caller that passes it, before its call of the
\* runtime parallel-for and at a time when no invocation holding the struct
\* has still to return; every load returns the value captured by its caller.
C3_ContextReadOnly ==
  \A e \in lLog :
    /\ e.who # 0 /\ e.ctx = CtxOf(Parent(e.who)) => e.kind = "load"
    /\ e.kind = "store" =>
         /\ e.ctx = CtxOf(e.who)
         /\ ~e.called
         /\ e.live = {}
    /\ e.kind = "load" => e.got = e.want

\* two invocations of the outer outlined function have each stored to and
\* called with the context of the nested construct, and the function is done
C3_Witness ==
  /\ lPhase = "done"
  /\ lShape = "nested"
  /\ \E e1, e2 \in lLog :
       /\ e1.kind = "store" /\ e2.kind = "store"
       /\ e1.who # 0 /\ e2.who # 0 /\ e1.who # e2.who
  /\ \E e \in lLog : e.kind = "load" /\ e.who >= 10 /\ Len(e.got) > 0

\* the constants the entry block of the outlined function clones
OutlinedClones(c) == contextConstants(c)

\* the values of a walk that are defined outside the construct
OutsideValues(walk) == {walk[j] : j \in 1 .. Len(walk)} \ {0}

\* where a walk meets value v first
FirstUse(walk, v) ==
  CHOOSE j \in 1 .. Len(walk) :
    walk[j] = v /\ \A k \in 1 .. (j - 1) : walk[k] # v

\* the fields the caller stores to and the outlined function loads from
StoreFields(c, v) ==
  {CallerCode(c)[k].field :
     k \in {j \in 1 .. Len(CallerCode(c)) :
              CallerCode(c)[j].op = "store" /\ CallerCode(c)[j].pos = v}}

LoadFields(c, v) ==
  {OutlinedLoads(c)[k].field :
     k \in {j \in 1 .. Len(OutlinedLoads(c)) : OutlinedLoads(c)[j].pos = v}}

\* the captured value a runtime value is the value of
ValueNumber(x) == x % 10

\* C12: every distinct value used inside a lowered construct, defined
\* outside it and not ConstantLike has exactly one field; the fields follow
\* the order of first discovery; the caller stores a value at the field the
\* outlined function loads it from, and a load yields that value; a
\* ConstantLike definition has no field and is cloned into the outlined
\* function.
C12_FieldPerCapturedValue ==
  \A c \in DOMAIN lState :
    lState[c] = "lowered" =>
      LET walk == lWalk[c]
          captured == {v \in OutsideValues(walk) : ValueKind(v) # "constant"}
          constants == {v \in OutsideValues(walk) : ValueKind(v) = "constant"}
      IN  /\ \A v \in captured :
                /\ Cardinality(StoreFields(c, v)) = 1
                /\ StoreFields(c, v) = LoadFields(c, v)
          /\ UNION {StoreFields(c, v) : v \in captured} =
               1 .. Cardinality(captured)
          /\ \A v \in captured : \A w \in captured :
                FirstUse(walk, v) < FirstUse(walk, w) =>
                  \A f \in StoreFields(c, v) : \A g \in StoreFields(c, w) :
                    f < g
          /\ \A v \in constants :
                /\ StoreFields(c, v) = {}
                /\ LoadFields(c, v) = {}
                /\ \E k \in 1 .. Len(OutlinedClones(c)) :
                     OutlinedClones(c)[k] = v
          /\ \A e \in lLog :
                e.kind = "load" /\ Outlined(e.who) = c =>
                  /\ Len(e.got) = Cardinality(captured)
                  /\ \A v \in captured : \A f \in LoadFields(c, v) :
                       ValueNumber(e.got[f]) = v

\* a construct that uses two outside values (one of them twice), a constant
\* and a value of its own has been lowered and its code has run
C12_Witness ==
  /\ lPhase = "done"
  /\ \E c \in DOMAIN lState :
       /\ lState[c] = "lowered"
       /\ lWalk[c] = <<4, 2, 0, 1, 4>>
       /\ \E e \in lLog :
            e.kind = "load" /\ Outlined(e.who) = c /\ e.got # <<>>

\* C13: the lowered code runs the original body in the original bindings.
\* The call hands the runtime, per dimension, the lower bound, the upper
\* bound and the step of the original construct; every invocation of the
\* outlined function binds body argument i to the lower bound of dimension i
\* of the slice it was given, argument i + N to the upper bound of
\* dimension i, argument 2N to the thread index, and every captured value to
\* the value it has at the call site.
C13_OutlinedBodyBindings ==
  \A e \in lLog :
    /\ e.kind = "call" =>
         LET c == Callee(e.who)
         IN  /\ Len(e.args) = lLoops[c]
             /\ \A i \in 1 .. lLoops[c] :
                  e.args[i] = <<1000 * c + 10 * i, 1000 * c + 10 * i + 1,
                                1000 * c + 10 * i + 2>>
    /\ e.kind = "load" =>
         LET n == lLoops[Outlined(e.who)]
             slice == RuntimeBounds(e.who)
         IN  /\ Len(e.args) = 2 * n + 1
             /\ \A i \in 0 .. (n - 1) :
                  /\ e.args[i + 1] = slice[i + 1][1]
                  /\ e.args[i + n + 1] = slice[i + 1][2]
             /\ e.args[2 * n + 1] = ThreadIndex(e.who)
             /\ e.got = e.want

\* a construct with two loop dimensions that captures a value has been
\* lowered, called, and its outlined function has run
C13_Witness ==
  /\ lPhase = "done"
  /\ \E e \in lLog :
       /\ e.kind = "load"
       /\ lLoops[Outlined(e.who)] = 2
       /\ e.got # <<>>
       /\ \E d \in lLog : d.kind = "call" /\ Callee(d.who) = Outlined(e.who)

RetKinds == {"int", "none", "memref", "badmemref", "opaque"}

IsMemRef(k) == k \in {"memref", "badmemref"}

\* typeConverter.convertType(type) is not null
convertType(k) == k \in {"int", "none", "memref"}

\* getFunctionResType: memref results become array structs (getArrayType
\* converts the element type only), the others stay; the result is null
\* when convertTupleTypes cannot convert a member
getFunctionResTypeOk(types) ==
  \/ Len(types) <= 1
  \/ \A i \in 1 .. Len(types) : IsMemRef(types[i]) \/ convertType(types[i])

\* fixFuncSig succeeds: a private function is left alone; otherwise the
\* result type must exist and convert
fixFuncSigOk(private, types) ==
  \/ private
  \/ /\ getFunctionResTypeOk(types)
     /\ \A i \in 1 .. Len(types) : IsMemRef(types[i]) \/ convertType(types[i])

\* the diagnostics a failing fixFuncSig has emitted: none when
\* getFunctionResType returned null, one when the result type it returned
\* does not convert
fixFuncSigDiag(types) ==
  IF getFunctionResTypeOk(types)
  THEN <<"fixFuncSig: couldn't convert return type: ">>
  ELSE <<>>

\* the operations convertVal creates for a value it can convert
convertValOps(k) ==
  IF k = "none" THEN <<"llvm.mlir.zero">>
  ELSE IF k = "memref"
       THEN <<"builtin.unrealized_conversion_cast", "func.call">>
       ELSE <<>>

\* the conversion functions convertVal adds to the module
convertValFuncs(k) == IF k = "memref" THEN {"fromMemref"} ELSE {}

\* the loop over the operands of a return with several operands: it stops
\* at the first operand convertVal returns null for
RECURSIVE insertOperands(_, _, _)
insertOperands(types, i, acc) ==
  IF i > Len(types) THEN [ok |-> TRUE, ops |-> acc.ops, funcs |-> acc.funcs]
  ELSE IF ~convertType(types[i])
       THEN [ok |-> FALSE, ops |-> acc.ops, funcs |-> acc.funcs]
       ELSE insertOperands(types, i + 1,
              [ops |-> acc.ops \o convertValOps(types[i]) \o
                       <<"llvm.insertvalue">>,
               funcs |-> acc.funcs \cup convertValFuncs(types[i])])

\* the operations the pattern has created before the return when it leaves,
\* and whether it got as far as replacing the return
ReturnRewrite(private, module, types) ==
  IF private \/ ~module THEN [ok |-> FALSE, ops |-> <<>>, funcs |-> {}]
  ELSE IF Len(types) = 0
  THEN [ok |-> TRUE, ops |-> <<"llvm.mlir.zero", "llvm.store">>, funcs |-> {}]
  ELSE IF Len(types) = 1
  THEN IF ~convertType(types[1])
       THEN [ok |-> FALSE, ops |-> <<>>, funcs |-> {}]
       ELSE [ok |-> TRUE,
             ops |-> convertValOps(types[1]) \o <<"llvm.store">>,
             funcs |-> convertValFuncs(types[1])]
  ELSE LET r == insertOperands(types, 1,
                  [ops |-> <<"llvm.mlir.undef">>, funcs |-> {}])
       IN  IF r.ok
           THEN [ok |-> TRUE, ops |-> r.ops \o <<"llvm.store">>,
                 funcs |-> r.funcs]
           ELSE r

ReturnInit ==
  /\ rPrivate \in BOOLEAN
  /\ rModule \in BOOLEAN
  /\ rOperands \in SeqsUpTo(RetKinds, MaxOperands)
  /\ rPhase = "sig"
  /\ rOps = <<"func.return">>
  /\ rFuncs = {}
  /\ rBefore = [ops |-> <<>>, funcs |-> {}]
  /\ rResult = "none"
  /\ rDiag = <<>>

\* PreLLVMLowering::runOnOperation up to the pattern application
FixFuncSigSuccess ==
  /\ rPhase = "sig"
  /\ fixFuncSigOk(rPrivate, rOperands)
  /\ rPhase' = "patterns"
  /\ UNCHANGED <<rPrivate, rModule, rOperands, rOps, rFuncs, rBefore, rResult>>
  /\ UNCHANGED rDiag
  /\ UNCHANGED notReturn

\* fixFuncSig fails: signalPassFailure, no pattern is applied
FixFuncSigFailure ==
  /\ rPhase = "sig"
  /\ ~fixFuncSigOk(rPrivate, rOperands)
  /\ rPhase' = "passFailed"
  /\ rDiag' = fixFuncSigDiag(rOperands)
  /\ UNCHANGED <<rPrivate, rModule, rOperands, rOps, rFuncs, rBefore, rResult>>
  /\ UNCHANGED notReturn

\* ReturnOpLowering::matchAndRewrite returns success: the new operations
\* stand before llvm.return, which replaces func.return
ReturnSuccess ==
  /\ rPhase = "patterns"
  /\ LET r == ReturnRewrite(rPrivate, rModule, rOperands)
     IN  /\ r.ok
         /\ rOps' = r.ops \o <<"llvm.mlir.constant", "llvm.return">>
         /\ rFuncs' = rFuncs \cup r.funcs
  /\ rBefore' = [ops |-> rOps, funcs |-> rFuncs]
  /\ rResult' = "success"
  /\ rPhase' = "done"
  /\ UNCHANGED <<rPrivate, rModule, rOperands>>
  /\ UNCHANGED rDiag
  /\ UNCHANGED notReturn

\* ReturnOpLowering::matchAndRewrite returns failure: what it created
\* before that stays before func.return
ReturnFailure ==
  /\ rPhase = "patterns"
  /\ LET r == ReturnRewrite(rPrivate, rModule, rOperands)
     IN  /\ ~r.ok
         /\ rOps' = r.ops \o rOps
         /\ rFuncs' = rFuncs \cup r.funcs
  /\ rBefore' = [ops |-> rOps, funcs |-> rFuncs]
  /\ rResult' = "failure"
  /\ rPhase' = "done"
  /\ UNCHANGED <<rPrivate, rModule, rOperands>>
  /\ UNCHANGED rDiag
  /\ UNCHANGED notReturn

ReturnNext ==
  \/ FixFuncSigSuccess
  \/ FixFuncSigFailure
  \/ ReturnSuccess
  \/ ReturnFailure

\* C8 as stated: a pattern that returns failure has created, erased or
\* modified no operation; the IR after the declined attempt is the IR
\* before it (return rewriting, allocation hoister, runtime lowering).
C8_DeclineLeavesIRUnchanged ==
  /\ rResult = "failure" => rOps = rBefore.ops /\ rFuncs = rBefore.funcs
  /\ hResult = "failure" => hOps = hBefore
  /\ \A c \in DOMAIN lState : lState[c] = "declined" => lAnchor[c] = "none"

\* C16: a type at the function boundary that does not convert is reported
\* with a message: whenever PreLLVMLowering has failed because fixFuncSig
\* failed, a diagnostic was emitted on the function.
C16_BoundaryErrorCarriesMessage ==
  rPhase = "passFailed" => rDiag # <<>>

\* C24: after PreLLVMLowering every return of a public function of a module
\* is an llvm.return of the status constant that follows a store of the
\* converted value (a null pointer for no operand, one insertvalue per
\* operand for several); no func.return is left.
C24_ReturnsStoreThroughOutPointer ==
  (rPhase = "done" /\ ~rPrivate /\ rModule) =>
    /\ \A i \in DOMAIN rOps : rOps[i] # "func.return"
    /\ Len(rOps) >= 3
    /\ SubSeq(rOps, Len(rOps) - 2, Len(rOps)) =
         <<"llvm.store", "llvm.mlir.constant", "llvm.return">>
    /\ Len(rOperands) = 0 => rOps[1] = "llvm.mlir.zero"
    /\ Len(rOperands) > 1 =>
         Cardinality({i \in DOMAIN rOps : rOps[i] = "llvm.insertvalue"}) =
           Len(rOperands)

(***************************************************************************)
(* Parallel-loop rewriter: the match conditions of                         *)
(* ParallelToTbb::matchAndRewrite and the greedy application of the        *)
(* pattern to the scf.parallel loops of one function.  The function is a   *)
(* nest of operations, outermost first, each holding the next.             *)
(***************************************************************************)

TbbKinds == {"scf_parallel", "util_parallel", "env_parallel", "env_other"}

\* the results of a loop: their types, and per result the reduction region
\* of the scf.reduce terminator (its blocks, the operations of its first
\* block without the terminator)
RegionOf(blocks, ops) == [blocks |-> blocks, ops |-> ops]

NoResults == [types |-> <<>>, regions |-> <<>>]

RedMenu ==
  {NoResults,
   [types |-> <<"i64">>, regions |-> <<RegionOf(1, <<"addi">>)>>],
   [types |-> <<"f64">>, regions |-> <<RegionOf(1, <<"addf">>)>>],
   [types |-> <<"index">>, regions |-> <<RegionOf(1, <<"addi">>)>>],
   [types |-> <<"i64">>, regions |-> <<RegionOf(1, <<"subi">>)>>],
   [types |-> <<"i64">>, regions |-> <<RegionOf(1, <<"muli", "addi">>)>>],
   [types |-> <<"i64">>, regions |-> <<RegionOf(2, <<"addi">>)>>],
   [types |-> <<"i64", "f64">>,
    regions |-> <<RegionOf(1, <<"maxsi">>), RegionOf(1, <<"mulf">>)>>]}

\* the results that decide the run of the driver: a loop without results,
\* one with a reduction the pattern takes, one with a reduction it declines
DriverMenu ==
  {NoResults,
   [types |-> <<"i64">>, regions |-> <<RegionOf(1, <<"addi">>)>>],
   [types |-> <<"index">>, regions |-> <<RegionOf(1, <<"addi">>)>>]}

TbbNode(kind, red, origin) == [kind |-> kind, red |-> red, origin |-> origin]

\* the nests of at most n operations whose loops have results from menu
RECURSIVE TbbNests(_, _)
TbbNests(n, menu) ==
  IF n = 0 THEN {<<>>}
  ELSE LET shorter == TbbNests(n - 1, menu)
       IN  shorter \cup
           {Append(c, TbbNode("scf_parallel", r, Len(c) + 1)) :
              c \in {d \in shorter : Len(d) = n - 1}, r \in menu} \cup
           {Append(c, TbbNode(k, NoResults, Len(c) + 1)) :
              c \in {d \in shorter : Len(d) = n - 1},
              k \in TbbKinds \ {"scf_parallel"}}

\* the enclosing function and its max-concurrency attribute
TbbAttrs ==
  {[func |-> FALSE, present |-> FALSE, val |-> 0],
   [func |-> TRUE, present |-> FALSE, val |-> 0]} \cup
  {[func |-> TRUE, present |-> TRUE, val |-> v] : v \in 0 .. MaxConc}

\* where the loop that came from operation o of the input stands
PosOf(chain, o) == CHOOSE k \in 1 .. Len(chain) : chain[k].origin = o

Loops(chain) ==
  {chain[k].origin : k \in {j \in 1 .. Len(chain) :
                              chain[j].kind = "scf_parallel"}}

\* Type::isIntOrFloat (getReduceType returns a memref type)
getReduceTypeAny(type) == type \in {"i64", "f64", "index"}

getReduceType(type) == type \in {"i64", "f64"}

\* the float operations mlir::arith::getNeutralElement knows besides the
\* integer ones
FloatNeutralOps == {"addf", "mulf", "maximumf", "minimumf"}

\* getReduceInitVal returns a value: one operation before the terminator,
\* and it has a neutral element
getReduceInitValOk(ops) ==
  /\ Len(ops) = 1
  /\ ops[1] \in NeutralOps \cup FloatNeutralOps

\* op->getParentOp()
ParentKind(chain, k) == IF k = 1 THEN "func" ELSE chain[k - 1].kind

\* isInsideParalleRegion: the direct parent is an environment region with
\* a ParallelAttr
isInsideParalleRegion(chain, k) == ParentKind(chain, k) = "env_parallel"

\* op->getParentOfType<scf::ParallelOp>()
HasParentParallel(chain, k) ==
  \E j \in 1 .. (k - 1) : chain[j].kind = "scf_parallel"

\* maxConcurrency as matchAndRewrite reads it: 0 unless the attribute is set
maxConcurrency(attr) == IF attr.present THEN attr.val ELSE 0

ConcurrencyOkFromOne(n) == n >= 1

ConcurrencyOk(n) == n > 1

ParentOkAlways(chain, k) == TRUE

\* the first check: the loop is not the direct child of util.parallel
ParentOk(chain, k) == ParentKind(chain, k) # "util_parallel"

\* the checks matchAndRewrite makes before it creates anything
ParallelToTbbMatches(chain, k, attr) ==
  /\ ParentOk(chain, k)
  /\ isInsideParalleRegion(chain, k) \/ ~HasParentParallel(chain, k)
  /\ attr.func
  /\ ConcurrencyOk(maxConcurrency(attr))
  /\ \A i \in 1 .. Len(chain[k].red.types) :
       getReduceType(chain[k].red.types[i])
  /\ \A i \in 1 .. Len(chain[k].red.regions) :
       /\ chain[k].red.regions[i].blocks = 1
       /\ getReduceInitValOk(chain[k].red.regions[i].ops)

\* the rewrite: util.parallel takes the place of the loop and holds its
\* clone (the init and combine scf.for loops and the allocas hold no loop)
ParallelToTbbRewrite(chain, k) ==
  SubSeq(chain, 1, k - 1) \o
  <<TbbNode("util_parallel", NoResults, 0), chain[k]>> \o
  SubSeq(chain, k + 1, Len(chain))

TbbInitWith(menu) ==
  /\ tOrig \in TbbNests(MaxNest, menu)
  /\ tChain = tOrig
  /\ tAttr \in TbbAttrs
  /\ tWork = Loops(tOrig)
  /\ tChanged = FALSE
  /\ tPhase = "run"
  /\ tRewrites = [o \in 1 .. Len(tOrig) |-> 0]
  /\ tLog = {}

TbbInit == TbbInitWith(RedMenu)

TbbInitDriver == TbbInitWith(DriverMenu)

\* the driver takes loop o from its worklist and the pattern succeeds; the
\* operations created, the clone among them, go on the worklist
TbbSuccess(o) ==
  /\ tPhase = "run"
  /\ o \in tWork
  /\ Len(tChain) < 2 * MaxNest + 2
  /\ LET k == PosOf(tChain, o)
     IN  /\ ParallelToTbbMatches(tChain, k, tAttr)
         /\ tChain' = ParallelToTbbRewrite(tChain, k)
         /\ tLog' = tLog \cup
              {[origin |-> o, parent |-> ParentKind(tChain, k),
                enclosed |-> HasParentParallel(tChain, k),
                attr |-> tAttr, red |-> tChain[k].red]}
  /\ tRewrites' = [tRewrites EXCEPT ![o] = @ + 1]
  /\ tChanged' = TRUE
  /\ UNCHANGED <<tOrig, tAttr, tWork, tPhase>>
  /\ UNCHANGED notTbb

\* the pattern declines on loop o: the loop leaves the worklist
TbbFailure(o) ==
  /\ tPhase = "run"
  /\ o \in tWork
  /\ ~ParallelToTbbMatches(tChain, PosOf(tChain, o), tAttr)
  /\ tWork' = tWork \ {o}
  /\ UNCHANGED <<tOrig, tChain, tAttr, tChanged, tPhase, tRewrites, tLog>>
  /\ UNCHANGED notTbb

\* the worklist is empty: the driver walks the function again when the
\* last walk changed it, and stops otherwise
TbbIterate ==
  /\ tPhase = "run"
  /\ tWork = {}
  /\ IF tChanged
     THEN /\ tWork' = Loops(tChain)
          /\ tChanged' = FALSE
          /\ tPhase' = tPhase
     ELSE /\ tPhase' = "done"
          /\ UNCHANGED <<tWork, tChanged>>
  /\ UNCHANGED <<tOrig, tChain, tAttr, tRewrites, tLog>>
  /\ UNCHANGED notTbb

TbbNext ==
  \/ \E o \in tWork : TbbSuccess(o)
  \/ \E o \in tWork : TbbFailure(o)
  \/ TbbIterate

\* the conditions of the claim, on what a rewrite saw when it matched
C9_Conditions(e) ==
  /\ e.parent # "util_parallel"
  /\ e.parent = "env_parallel" \/ ~e.enclosed
  /\ e.attr.func /\ e.attr.present /\ e.attr.val > 1
  /\ \A i \in 1 .. Len(e.red.types) : e.red.types[i] \in {"i64", "f64"}
  /\ \A i \in 1 .. Len(e.red.regions) :
       /\ e.red.regions[i].blocks = 1
       /\ e.red.regions[i].ops # <<>>
       /\ e.red.regions[i].ops[Len(e.red.regions[i].ops)] \in
            NeutralOps \cup FloatNeutralOps

\* C9: a loop is rewritten only if its direct parent is not util.parallel,
\* it sits directly in an environment region tagged parallel or has no
\* enclosing scf.parallel, its function declares a max concurrency above 1,
\* every result type is an integer or float and every reduction region is
\* one block whose operator has a neutral element; with max concurrency 0,
\* 1 or absent nothing is rewritten.
C9_RewritesOnlyEligible ==
  /\ \A e \in tLog : C9_Conditions(e)
  /\ (~tAttr.present \/ tAttr.val <= 1) => tLog = {} /\ tChain = tOrig

\* a loop with two reductions that lies directly in a parallel environment
\* region inside another scf.parallel has been rewritten
C9_Witness ==
  /\ tPhase = "done"
  /\ \E e \in tLog :
       /\ e.parent = "env_parallel"
       /\ e.enclosed
       /\ Len(e.red.types) = 2

\* what C10 says of every state of the driver
C10_Once ==
  /\ \A o \in 1 .. Len(tOrig) :
       /\ tRewrites[o] <= 1
       /\ tRewrites[o] = 1 =>
            ParentKind(tChain, PosOf(tChain, o)) = "util_parallel"
  /\ \A e \in tLog : e.parent # "util_parallel"
  /\ tPhase = "done" =>
       \A o \in Loops(tOrig) :
         tRewrites[o] = IF ParallelToTbbMatches(tOrig, o, tAttr) THEN 1 ELSE 0

\* C10: the repeated application terminates, every loop the pattern's
\* conditions admit has then been rewritten exactly once and the others
\* never, and the clone inside util.parallel is never matched again.
C10_TerminatesRewritingOnce == <>(tPhase = "done") /\ [] C10_Once

\* the driver has stopped after rewriting two loops of one nest and
\* declining their clones
C10_Witness ==
  /\ tPhase = "done"
  /\ \E o1, o2 \in Loops(tOrig) :
       o1 < o2 /\ tRewrites[o1] = 1 /\ tRewrites[o2] = 1

(***************************************************************************)
(* Names of outlined functions: the funcName loop of LowerParallel and the *)
(* module's symbol table.                                                  *)
(***************************************************************************)

\* how many constructs the pattern lowers in one module
MaxOutlined == 3

\* one symbol of the module: its name, whether the operation is a
\* func::FuncOp or another symbol operation (a global, an llvm.func), and an
\* identity of its body
Sym(name, kind, body) == [name |-> name, kind |-> kind, body |-> body]

\* the modules the pass starts on: function f, and optionally a symbol named
\* f_outlined (a function or not), a function f_outlined_1 and a function g;
\* no two symbols of a module the pass starts on share a name
ModuleMenu ==
  {<<Sym("f", "func", 1)>> \o a \o b \o c :
     a \in {<<>>, <<Sym("f_outlined", "func", 2)>>,
            <<Sym("f_outlined", "other", 2)>>},
     b \in {<<>>, <<Sym("f_outlined_1", "func", 3)>>},
     c \in {<<>>, <<Sym("g", "func", 4)>>}}

\* SymbolTable::lookupSymbolIn: the position of the first operation of the
\* module that carries the name, 0 when there is none
RECURSIVE lookupSymbolFrom(_, _, _)
lookupSymbolFrom(syms, name, k) ==
  IF k > Len(syms) THEN 0
  ELSE IF syms[k].name = name THEN k
  ELSE lookupSymbolFrom(syms, name, k + 1)

\* mod.lookupSymbol<mlir::func::FuncOp>(name): the symbol found, cast to
\* FuncOp; null when there is none or when it is not a FuncOp
lookupSymbolFuncOp(syms, name) ==
  LET k == lookupSymbolFrom(syms, name, 1)
  IN  k # 0 /\ syms[k].kind = "func"

\* the candidate name of round i
outlinedName(oldName, i) ==
  IF i = 0 THEN oldName \o "_outlined"
  ELSE oldName \o "_outlined_" \o ToString(i)

\* the funcName loop: the first candidate the lookup does not find
RECURSIVE funcName(_, _, _)
funcName(syms, oldName, i) ==
  IF ~lookupSymbolFuncOp(syms, outlinedName(oldName, i))
  THEN outlinedName(oldName, i)
  ELSE funcName(syms, oldName, i + 1)

\* numba::addFunction: a new FuncOp of that name is created in the module;
\* where in the module is not fixed
addFunction(syms, name, body, atFront) ==
  IF atFront THEN <<Sym(name, "func", body)>> \o syms
  ELSE syms \o <<Sym(name, "func", body)>>

NameInit ==
  /\ nSyms \in ModuleMenu
  /\ nLog = <<>>

\* LowerParallel outlines a construct whose parent function is symbol p
OutlineFunc(p, atFront) ==
  /\ Len(nLog) < MaxOutlined
  /\ p \in DOMAIN nSyms
  /\ nSyms[p].kind = "func"
  /\ LET name == funcName(nSyms, nSyms[p].name, 0)
     IN  /\ nSyms' = addFunction(nSyms, name, 10 + Len(nLog), atFront)
         /\ nLog' = Append(nLog, [name |-> name, parent |-> nSyms[p].name,
                                  before |-> nSyms])
  /\ UNCHANGED notName

NameNext == \E p \in 1 .. (4 + MaxOutlined), atFront \in BOOLEAN :
              OutlineFunc(p, atFront)

\* the names the symbols of a module carry
NamesOf(syms) == {syms[k].name : k \in DOMAIN syms}

\* C14: after any sequence of lowerings the names of the functions of the
\* module are pairwise distinct, the name a new outlined function got was
\* not taken by a symbol of the module, and every function that was in the
\* module is still there with its body.
C14_OutlinedNamesDistinct ==
  /\ \A i, j \in DOMAIN nSyms :
       (i # j /\ nSyms[i].kind = "func" /\ nSyms[j].kind = "func")
         => nSyms[i].name # nSyms[j].name
  /\ \A k \in DOMAIN nLog :
       /\ nLog[k].name \notin NamesOf(nLog[k].before)
       /\ \A i \in DOMAIN nLog[k].before :
            \E j \in DOMAIN nSyms : nSyms[j] = nLog[k].before[i]

(***************************************************************************)
(* Execution engine: numba::ExecutionEngine::loadModule and lookup, one    *)
(* call at a time.                                                         *)
(***************************************************************************)

\* how many lookups follow a loadModule
MaxLookups == 2

\* what the environment of one loadModule call does: whether
\* translateModuleToLLVMIR returns a module, whether there is a transformer
\* and what it returns, whether createJITDylib, the definition of the
\* symbolMap symbols, addIRModule, the definition of the runtime symbols
\* and initialize succeed, and whether the runtime libraries are there with
\* their symbols
EngineInputs ==
  [translate : BOOLEAN, transformer : {"none", "ok", "error"},
   createJITDylib : BOOLEAN, symbolMap : {"none", "ok", "error"},
   addIRModule : BOOLEAN, libs : {"found", "noLibrary", "noSymbol"},
   define : BOOLEAN, initialize : BOOLEAN]

\* how a call ends: with a handle, with an llvm::Error carrying a message,
\* with the process aborted (cantFail, report_fatal_error), or crashed
Outcome(kind, msg) == [kind |-> kind, msg |-> msg]

\* makeStringError
makeStringError(msg) == Outcome("error", msg)

\* llvm::cantFail on an error, llvm::report_fatal_error
Abort(msg) == Outcome("abort", msg)

\* loadModule, in the order of its statements; the module pointer is used
\* (setCodeModel, ...) before it is tested, which for a null pointer is
\* undefined: the process crashes or goes on to the test; a runtime library
\* that is not found is reported on llvm::errs() only
loadModule(in) ==
  IF ~in.translate
  THEN {Outcome("crash", ""), makeStringError("could not convert to LLVM IR")}
  ELSE IF in.transformer = "error" THEN {Abort("cantFail")}
  ELSE IF ~in.createJITDylib THEN {makeStringError("createJITDylib")}
  ELSE IF in.symbolMap = "error" THEN {Abort("cantFail")}
  ELSE IF ~in.addIRModule THEN {Abort("cantFail")}
  ELSE IF in.libs = "noSymbol"
  THEN {Abort("error finding kitcuda function in libkitrt.so")}
  ELSE IF ~in.define THEN {Abort("cantFail")}
  ELSE IF ~in.initialize THEN {Abort("cantFail")}
  ELSE {Outcome("handle", "")}

\* lookup: the error of jit->lookup is rewrapped into a string error, a null
\* address is an error, anything else is the pointer
lookup(sym) ==
  IF sym = "unresolved" THEN makeStringError("Symbols not found")
  ELSE IF sym = "null" THEN makeStringError("looked up function is null")
  ELSE Outcome("pointer", "")

EngineInit ==
  /\ eIn \in EngineInputs
  /\ eOut = NoOutcome
  /\ eLook = {}

LoadModule ==
  /\ eOut = NoOutcome
  /\ eOut' \in loadModule(eIn)
  /\ UNCHANGED <<eIn, eLook>>
  /\ UNCHANGED notEngine

Lookup(sym) ==
  /\ eOut.kind = "handle"
  /\ Cardinality(eLook) < MaxLookups
  /\ eLook' = eLook \cup {[sym |-> sym, res |-> lookup(sym)]}
  /\ UNCHANGED <<eIn, eOut>>
  /\ UNCHANGED notEngine

EngineNext ==
  \/ LoadModule
  \/ \E sym \in {"found", "unresolved", "null"} : Lookup(sym)

\* one of the failures of loadModule the claim lists happened
LoadFailure(in) ==
  \/ ~in.translate
  \/ in.transformer = "error"
  \/ ~in.createJITDylib
  \/ in.symbolMap = "error"
  \/ ~in.addIRModule
  \/ in.libs # "found"

\* C17: every failure of loadModule and of lookup comes back as an error
\* value that carries a message, and none aborts or crashes the process.
C17_FailuresAreErrorValues ==
  /\ eOut.kind \notin {"abort", "crash"}
  /\ (eOut # NoOutcome /\ LoadFailure(eIn)) =>
       (eOut.kind = "error" /\ eOut.msg # "")
  /\ \A l \in eLook :
       l.sym # "found" => (l.res.kind = "error" /\ l.res.msg # "")

(***************************************************************************)
(* Execution engine: lookups from several threads.  jit->lookup compiles   *)
(* a loaded module on its first lookup, on the calling thread, through     *)
(* CustomCompiler and the SimpleObjectCache.                               *)
(***************************************************************************)

\* threads that call lookup, modules that loadModule has returned
MaxThreads == 2
MaxModules == 2

JitThreads == 1 .. MaxThreads
JitModules == 1 .. MaxModules

\* m->getModuleIdentifier(): the name of the module, which modules may share
\* (translateModuleToLLVMIR names a module without a name LLVMDialectModule)
ModuleIds == {"LLVMDialectModule", "named"}

ThreadAt(at, m, n) == [pc |-> at, mod |-> m, n |-> n]

CacheInit ==
  /\ cEnabled \in BOOLEAN
  /\ cId \in [JitModules -> ModuleIds]
  /\ cMods = [m \in JitModules |-> "loaded"]
  /\ cTh = [t \in JitThreads |-> ThreadAt("idle", 0, 0)]
  /\ cCache = {}
  /\ cObj = [i \in ModuleIds |-> 0]
  /\ cServed = [m \in JitModules |-> 0]

\* thread t is inside cachedObjects.find (getObject)
Reading(t) == cTh[t].pc = "getObject"

\* thread t is inside cachedObjects[...] = ... (notifyObjectCompiled)
Writing(t) == cTh[t].pc = "notify"

\* another thread is inside the map while t is
Raced(t) ==
  \E u \in JitThreads \ {t} : Writing(u) \/ (Writing(t) /\ Reading(u))

\* lookup(handle, name) enters jit->lookup: a module that is compiled is
\* only searched; the first lookup of a module starts its compilation on
\* this thread; a lookup of a module another thread compiles waits for it
LookupBegin(t, m) ==
  /\ cTh[t].pc = "idle"
  /\ cTh[t].n < MaxLookups
  /\ cMods[m] # "released"
  /\ cTh' = [cTh EXCEPT ![t] =
       ThreadAt(IF cMods[m] = "ready" THEN "resolve"
                ELSE IF cMods[m] = "compiling" THEN "wait"
                ELSE IF cEnabled THEN "getObject" ELSE "codegen",
                m, cTh[t].n)]
  /\ cMods' = [cMods EXCEPT ![m] = IF @ = "loaded" THEN "compiling" ELSE @]
  /\ UNCHANGED <<cEnabled, cId, cCache, cObj, cServed>>
  /\ UNCHANGED notCache

\* SimpleObjectCache::getObject returns: the buffer of the identifier when
\* the map holds it, null otherwise; a read that overlaps a write of another
\* thread is a data race and finds either, and any buffer; the module runs
\* the object that was found
GetObject(t) ==
  /\ Reading(t)
  /\ \E hit \in BOOLEAN :
       /\ ~Raced(t) => (hit <=> cId[cTh[t].mod] \in cCache)
       /\ cTh' = [cTh EXCEPT ![t].pc = IF hit THEN "resolve" ELSE "codegen"]
       /\ cMods' = [cMods EXCEPT ![cTh[t].mod] =
                      IF hit THEN "ready" ELSE @]
       /\ IF ~hit THEN cServed' = cServed
          ELSE IF Raced(t)
          THEN \E from \in JitModules :
                 cServed' = [cServed EXCEPT ![cTh[t].mod] = from]
          ELSE cServed' = [cServed EXCEPT ![cTh[t].mod] = cObj[cId[cTh[t].mod]]]
  /\ UNCHANGED <<cEnabled, cId, cCache, cObj>>
  /\ UNCHANGED notCache

\* CustomCompiler::operator(): the module is compiled; with a cache the
\* object is handed to notifyObjectCompiled
Codegen(t) ==
  /\ cTh[t].pc = "codegen"
  /\ cTh' = [cTh EXCEPT ![t].pc = IF cEnabled THEN "notify" ELSE "resolve"]
  /\ cMods' = [cMods EXCEPT ![cTh[t].mod] =
                 IF cEnabled THEN @ ELSE "ready"]
  /\ cServed' = [cServed EXCEPT ![cTh[t].mod] = cTh[t].mod]
  /\ UNCHANGED <<cEnabled, cId, cCache, cObj>>
  /\ UNCHANGED notCache

\* SimpleObjectCache::notifyObjectCompiled returns: the map holds the
\* identifier; a write that overlaps an access of another thread is a data
\* race and leaves any map
NotifyObjectCompiled(t) ==
  /\ Writing(t)
  /\ IF Raced(t)
     THEN /\ cCache' \in SUBSET ModuleIds
          /\ cObj' \in [ModuleIds -> 0 .. MaxModules]
          /\ \A i \in ModuleIds : cObj'[i] # 0 <=> i \in cCache'
     ELSE /\ cCache' = cCache \cup {cId[cTh[t].mod]}
          /\ cObj' = [cObj EXCEPT ![cId[cTh[t].mod]] = cTh[t].mod]
  /\ cTh' = [cTh EXCEPT ![t].pc = "resolve"]
  /\ cMods' = [cMods EXCEPT ![cTh[t].mod] = "ready"]
  /\ UNCHANGED <<cEnabled, cId, cServed>>
  /\ UNCHANGED notCache

\* the module the thread waits for is compiled
WaitEnd(t) ==
  /\ cTh[t].pc = "wait"
  /\ cMods[cTh[t].mod] = "ready"
  /\ cTh' = [cTh EXCEPT ![t].pc = "resolve"]
  /\ UNCHANGED <<cEnabled, cId, cMods, cCache, cObj, cServed>>
  /\ UNCHANGED notCache

\* lookup returns the address or the error
LookupEnd(t) ==
  /\ cTh[t].pc = "resolve"
  /\ cTh' = [cTh EXCEPT ![t] = ThreadAt("idle", 0, cTh[t].n + 1)]
  /\ UNCHANGED <<cEnabled, cId, cMods, cCache, cObj, cServed>>
  /\ UNCHANGED notCache

\* releaseModule(handle), called when no lookup of the module is under way:
\* the dylib is removed from the session; the object cache is not told
ReleaseModule(m) ==
  /\ cMods[m] \in {"loaded", "ready"}
  /\ \A t \in JitThreads : cTh[t].mod # m
  /\ cMods' = [cMods EXCEPT ![m] = "released"]
  /\ UNCHANGED <<cEnabled, cId, cTh, cCache, cObj, cServed>>
  /\ UNCHANGED notCache

CacheNext ==
  \/ \E t \in JitThreads, m \in JitModules : LookupBegin(t, m)
  \/ \E m \in JitModules : ReleaseModule(m)
  \/ \E t \in JitThreads : GetObject(t)
  \/ \E t \in JitThreads : Codegen(t)
  \/ \E t \in JitThreads : NotifyObjectCompiled(t)
  \/ \E t \in JitThreads : WaitEnd(t)
  \/ \E t \in JitThreads : LookupEnd(t)

\* C18: concurrent lookups are safe: at no time is one thread reading the
\* map of the object cache, or writing it, while another thread writes it.
C18_NoAccessDuringWrite ==
  \A t, u \in JitThreads :
    t # u => ~(Writing(t) /\ (Reading(u) \/ Writing(u)))

\* C29: with the object cache, a module runs the object that was compiled
\* from it and from no other module, and the entry of the cache for a
\* compiled module holds the object of that module.
C29_CachedObjectOfSameModule ==
  cEnabled =>
    \A m \in JitModules :
      /\ cServed[m] \in {0, m}
      /\ cMods[m] = "ready" => cObj[cId[m]] = m

(***************************************************************************)
(* The registered pipelines: registerParallelToTBBPipeline and             *)
(* registerLowerToLLVMPipeline, and the passes they populate.              *)
(***************************************************************************)

\* one registration: the name, the pipelines that have to run before it,
\* the pipelines that have to run after it
Pipeline(name, prev, nxt) == [name |-> name, prev |-> prev, next |-> nxt]

\* a registry in which nothing orders pre_lower_to_llvm and lower_to_llvm
PipelineRegistryUnordered ==
  {Pipeline("stage.begin", {}, {}),
   Pipeline("stage.end", {}, {}),
   Pipeline("parallel_to_tbb", {"stage.begin"}, {"lower_to_llvm"}),
   Pipeline("pre_lower_to_llvm", {"stage.begin"}, {"stage.end"}),
   Pipeline("lower_to_llvm", {"stage.begin"}, {"stage.end"})}

\* the arguments of the three sink calls, and the two ends of the stage
PipelineRegistry ==
  {Pipeline("stage.begin", {}, {}),
   Pipeline("stage.end", {}, {}),
   Pipeline("parallel_to_tbb", {"stage.begin"}, {"lower_to_llvm"}),
   Pipeline("pre_lower_to_llvm", {"stage.begin"},
            {"stage.end", "lower_to_llvm"}),
   Pipeline("lower_to_llvm", {"stage.begin", "pre_lower_to_llvm"},
            {"stage.end"})}

\* the passes a populate function adds, in its order
PassList(name) ==
  CASE name = "parallel_to_tbb" ->
         <<"LoopInvariantCodeMotion", "HoistBufferAllocsPass",
           "Canonicalizer", "CSE", "Canonicalizer">>
    [] name = "pre_lower_to_llvm" -> <<"PreLLVMLowering">>
    [] name = "lower_to_llvm" ->
         <<"RemoveParallelRegionPass", "LowerParallelToCFGPass",
           "ConvertSCFToCF", "Canonicalizer", "ConvertComplexToStandard",
           "ExpandStridedMetadata", "LowerAffine", "ArithExpandOps",
           "ConvertMathToLLVM", "LowerVectorOps", "ConvertMathToLibm",
           "MathExtToLibm", "UtilToLLVM", "LLVMLoweringPass",
           "FixLLVMStructABIPass", "PostLLVMLowering", "CSE",
           "Canonicalizer">>
    [] OTHER -> <<>>

\* a pipeline may start when the pipelines it names as predecessors, and
\* the pipelines that name it as a successor, have run
PipelineReady(e, done) ==
  /\ e.name \notin done
  /\ e.prev \subseteq done
  /\ \A o \in PipelineRegistry : e.name \in o.next => o.name \in done

\* the function the passes run on: private or public, whether its result
\* type converts, the signature it has, whether it holds an environment
\* region with a ParallelAttr, whether it holds an explicit-parallel
\* construct and whether the captures of that construct convert
PipeFuncs ==
  [private : BOOLEAN, retOk : BOOLEAN, sig : {"orig"}, env : BOOLEAN,
   par : {"none", "construct"}, capOk : BOOLEAN]

\* what a pass does to the function; a pass of another component leaves
\* what is recorded here alone
PassEffect(pass, f) ==
  CASE pass = "PreLLVMLowering" ->
         IF f.private \/ ~f.retOk THEN f ELSE [f EXCEPT !.sig = "fixed"]
    [] pass = "RemoveParallelRegionPass" -> [f EXCEPT !.env = FALSE]
    [] pass = "LowerParallelToCFGPass" ->
         IF f.par = "construct" /\ f.capOk THEN [f EXCEPT !.par = "call"]
         ELSE f
    [] OTHER -> f

\* PreLLVMLowering signals failure when fixFuncSig fails
PassFails(pass, f) == pass = "PreLLVMLowering" /\ ~f.private /\ ~f.retOk

PipeInit ==
  /\ pDone = {}
  /\ pCur = ""
  /\ pIdx = 0
  /\ pRan = <<>>
  /\ pFunc \in PipeFuncs
  /\ pStatus = "run"

\* the pass manager starts a pipeline that is ready; one without passes is
\* over at once
StartPipeline(e) ==
  /\ pStatus = "run"
  /\ pCur = ""
  /\ PipelineReady(e, pDone)
  /\ IF PassList(e.name) = <<>>
     THEN /\ pDone' = pDone \cup {e.name}
          /\ UNCHANGED <<pCur, pIdx>>
     ELSE /\ pCur' = e.name
          /\ pIdx' = 1
          /\ UNCHANGED pDone
  /\ UNCHANGED <<pRan, pFunc, pStatus>>
  /\ UNCHANGED notPipe

\* the next pass of the running pipeline runs; a failing pass ends the run
RunPass ==
  /\ pStatus = "run"
  /\ pCur # ""
  /\ LET pass == PassList(pCur)[pIdx]
     IN  /\ pRan' = Append(pRan, pass)
         /\ IF PassFails(pass, pFunc)
            THEN /\ pStatus' = "failed"
                 /\ UNCHANGED <<pDone, pCur, pIdx, pFunc>>
            ELSE /\ pFunc' = PassEffect(pass, pFunc)
                 /\ IF pIdx = Len(PassList(pCur))
                    THEN /\ pDone' = pDone \cup {pCur}
                         /\ pCur' = ""
                         /\ pIdx' = 0
                    ELSE /\ pIdx' = pIdx + 1
                         /\ UNCHANGED <<pDone, pCur>>
                 /\ UNCHANGED pStatus
  /\ UNCHANGED notPipe

PipeNext ==
  \/ \E e \in PipelineRegistry : StartPipeline(e)
  \/ RunPass

\* whether pass a has run before position i
RanBefore(a, i) == \E j \in 1 .. (i - 1) : pRan[j] = a

\* C19 as stated: the ABI fixer runs after runtime lowering: when
\* PreLLVMLowering runs, LowerParallelToCFGPass has run.
C19_AbiFixerAfterRuntimeLowering ==
  \A i \in DOMAIN pRan :
    pRan[i] = "PreLLVMLowering" => RanBefore("LowerParallelToCFGPass", i)

\* C19: the ABI fixer runs before runtime lowering: when
\* LowerParallelToCFGPass runs, PreLLVMLowering has run, which is when the
\* signature of a public function was rewritten, and no construct has been
\* lowered to a runtime call until then; of the passes that fix an ABI only
\* FixLLVMStructABIPass runs after LowerParallelToCFGPass.
C19_AbiFixerBeforeRuntimeLowering ==
  /\ \A i \in DOMAIN pRan :
       /\ pRan[i] = "LowerParallelToCFGPass" => RanBefore("PreLLVMLowering", i)
       /\ pRan[i] = "FixLLVMStructABIPass" =>
            RanBefore("LowerParallelToCFGPass", i)
  /\ pFunc.par = "call" => (pFunc.private \/ pFunc.sig = "fixed")

\* both have run on a public function with a construct: its signature is
\* rewritten and its construct is a runtime call
C19_Witness ==
  /\ pStatus = "run"
  /\ pDone = {e.name : e \in PipelineRegistry}
  /\ ~pFunc.private
  /\ pFunc.sig = "fixed"
  /\ pFunc.par = "call"

(***************************************************************************)
(* Layout and signedness casts: ChangeLayoutFor, SignCastForPropagate,     *)
(* SignCastChainPropagate and the folders of the two cast operations, on   *)
(* one scf.for with one iteration argument.  The body is a chain of casts  *)
(* of one family: the first casts the iteration argument, each next one    *)
(* the result of the one before, and the loop yields the last result.      *)
(***************************************************************************)

\* casts in the body of the loop at the start
MaxChain == 3

\* casts before and after the loop are counted up to this number
MaxCasts == 2

\* the types a cast goes between (two layouts of a memref, or a signed and
\* a signless integer of one width)
CastTypes == {"T", "S"}

\* the chains of at most n casts, each given by its result type
RECURSIVE CastChains(_)
CastChains(n) ==
  IF n = 0 THEN {<<>>}
  ELSE LET shorter == CastChains(n - 1)
       IN  shorter \cup {Append(c, t) : c \in shorter, t \in CastTypes}

\* the type of the value cast k of the chain reads: the result of the cast
\* before it, or the iteration argument
SourceType(iter, chain, k) == IF k = 1 THEN iter ELSE chain[k - 1]

\* the type of the value that is k casts above cast c (k = 0: its result)
TypeAbove(iter, chain, c, k) == IF k = c THEN iter ELSE chain[c - k]

\* the folders (ChangeLayoutOp::fold, SignCastOp::fold): the nearest value
\* up the chain that already has the type of the cast; 0 when there is none,
\* otherwise how many casts up it is
RECURSIVE foldPrevCast(_, _, _, _)
foldPrevCast(iter, chain, c, k) ==
  IF k > c THEN 0
  ELSE IF TypeAbove(iter, chain, c, k) = chain[c] THEN k
  ELSE foldPrevCast(iter, chain, c, k + 1)

\* the chain once the result of cast c is replaced by the value k casts up:
\* the casts in between have no use left
WithoutCasts(chain, c, k) ==
  SubSeq(chain, 1, c - k) \o SubSeq(chain, c + 1, Len(chain))

Saturated(n) == IF n < MaxCasts THEN n + 1 ELSE MaxCasts

CastInit ==
  /\ kFamily \in {"layout", "sign"}
  /\ kIter \in CastTypes
  /\ kChain \in {c \in CastChains(MaxChain) :
                   c = <<>> \/ c[Len(c)] = kIter}
  /\ kInit = 0
  /\ kRes = 0
  /\ kPhase = "run"
  /\ kRun = 1
  /\ kCount = 0

\* ChangeLayoutFor: the yield operand is the result of a change_layout; the
\* loop yields its source instead, the init gets a change_layout to the type
\* of the source, and where that type differs from the old one the new
\* iteration argument and the new result get a change_layout back
ChangeLayoutFor ==
  /\ kPhase = "run"
  /\ kFamily = "layout"
  /\ kChain # <<>>
  /\ LET n == Len(kChain)
         newType == SourceType(kIter, kChain, n)
         front == SubSeq(kChain, 1, n - 1)
     IN  /\ kIter' = newType
         /\ kChain' = IF newType = kIter THEN front ELSE <<kIter>> \o front
         /\ kInit' = Saturated(kInit)
         /\ kRes' = IF newType = kIter THEN kRes ELSE Saturated(kRes)
  /\ kCount' = Saturated(kCount)
  /\ UNCHANGED <<kFamily, kPhase, kRun>>
  /\ UNCHANGED notCast

\* SignCastForPropagate: as above for sign_cast, but a yield operand that
\* already has the new type stays the yield operand
SignCastForPropagate ==
  /\ kPhase = "run"
  /\ kFamily = "sign"
  /\ kChain # <<>>
  /\ LET n == Len(kChain)
         newType == SourceType(kIter, kChain, n)
         front == SubSeq(kChain, 1, n - 1)
     IN  /\ kIter' = newType
         /\ kChain' = IF newType = kIter THEN kChain ELSE <<kIter>> \o front
         /\ kInit' = Saturated(kInit)
         /\ kRes' = IF newType = kIter THEN kRes ELSE Saturated(kRes)
  /\ kCount' = Saturated(kCount)
  /\ UNCHANGED <<kFamily, kPhase, kRun>>
  /\ UNCHANGED notCast

\* the driver folds cast c: its result is a value up the chain
FoldCast(c) ==
  /\ kPhase = "run"
  /\ c \in DOMAIN kChain
  /\ foldPrevCast(kIter, kChain, c, 1) # 0
  /\ kChain' = WithoutCasts(kChain, c, foldPrevCast(kIter, kChain, c, 1))
  /\ kCount' = Saturated(kCount)
  /\ UNCHANGED <<kFamily, kIter, kInit, kRes, kPhase, kRun>>
  /\ UNCHANGED notCast

\* SignCastChainPropagate on cast c, whose source is a sign_cast: the source
\* of that one replaces c when it has the type of c, and is cast directly
\* otherwise (the types of one chain are cast compatible)
SignCastChainPropagate(c) ==
  /\ kPhase = "run"
  /\ kFamily = "sign"
  /\ c \in DOMAIN kChain
  /\ c >= 2
  /\ kChain' = IF SourceType(kIter, kChain, c - 1) = kChain[c]
               THEN WithoutCasts(kChain, c, 2)
               ELSE SubSeq(kChain, 1, c - 2) \o SubSeq(kChain, c, Len(kChain))
  /\ kCount' = Saturated(kCount)
  /\ UNCHANGED <<kFamily, kIter, kInit, kRes, kPhase, kRun>>
  /\ UNCHANGED notCast

\* a driver that stops while one cast is left in the body
CastDoneEarly ==
  /\ kPhase = "run"
  /\ Len(kChain) <= 1
  /\ kPhase' = "done"
  /\ UNCHANGED <<kFamily, kIter, kChain, kInit, kRes, kRun, kCount>>
  /\ UNCHANGED notCast

\* no rule applies to the loop any more
CastDone ==
  /\ kPhase = "run"
  /\ kChain = <<>>
  /\ kPhase' = "done"
  /\ UNCHANGED <<kFamily, kIter, kChain, kInit, kRes, kRun, kCount>>
  /\ UNCHANGED notCast

\* the canonicalizer is run again on what the run before it left: its
\* rewrites are counted from zero
CanonicalizeAgain ==
  /\ kPhase = "done"
  /\ kRun = 1
  /\ kRun' = 2
  /\ kCount' = 0
  /\ kPhase' = "run"
  /\ UNCHANGED <<kFamily, kIter, kChain, kInit, kRes>>
  /\ UNCHANGED notCast

CastNext ==
  \/ ChangeLayoutFor
  \/ SignCastForPropagate
  \/ \E c \in 1 .. MaxChain : FoldCast(c)
  \/ \E c \in 1 .. MaxChain : SignCastChainPropagate(c)
  \/ CastDone
  \/ CanonicalizeAgain

\* C20: whatever the order in which the rules are applied, their
\* application comes to an end: the loop reaches a state no rule applies to.
C20_CastRulesTerminate == <>(kPhase = "done")

MaxRank == 1

\* how many conversions are requested in one module
MaxRequests == 2

\* the memref types at the boundaries: rank, element type, memory space
\* (the layout and the extents take no part in what follows)
MemRefTypes ==
  [rank : 0 .. MaxRank, elem : {"f64", "i32"}, space : {0, 1}]

\* writeMemrefDesc: the rank and "x" for a rank above zero, then the element
\* type
writeMemrefDesc(m) ==
  IF m.rank > 0 THEN ToString(m.rank) \o "x" \o m.elem ELSE m.elem

genToMemrefConversionFuncName(m) ==
  "__convert_to_memref_" \o writeMemrefDesc(m)

genFromMemrefConversionFuncName(m) ==
  "__convert_from_memref_" \o writeMemrefDesc(m)

\* getArrayType: meminfo, parent, nitems, itemsize, data and, for a rank
\* above zero, shape and strides; all pointers are opaque pointers of the
\* default address space
getArrayType(m) == [struct |-> "array", rank |-> m.rank, space |-> 0]

\* typeConverter.convertType of a memref: the descriptor of the type
\* converter, whose two pointers are in the address space of the memref
convertMemRefType(m) == [struct |-> "memref", rank |-> m.rank, space |-> m.space]

FunctionType(srcType, dstType) == [src |-> srcType, dst |-> dstType]

\* the function a lookup of the name finds in the module once the request
\* has been served
ThunkOf(syms, name) == syms[lookupSymbolFrom(syms, name, 1)]

\* the assertion of the two functions on a function found: its result type
\* is the one asked for
ThunkAssertOk(syms, name, dstType) ==
  lookupSymbolFuncOp(syms, name) => ThunkOf(syms, name).body.dst = dstType

\* getToMemrefConversionFunc: the function of that name when the module has
\* one, otherwise a new function from srcType to dstType
getToMemrefConversionFunc(syms, m, srcType, dstType, atFront) ==
  LET name == genToMemrefConversionFuncName(m)
  IN  IF lookupSymbolFuncOp(syms, name) THEN syms
      ELSE addFunction(syms, name, FunctionType(srcType, dstType), atFront)

\* getFromMemrefConversionFunc: the same in the other direction
getFromMemrefConversionFunc(syms, m, srcType, dstType, atFront) ==
  LET name == genFromMemrefConversionFuncName(m)
  IN  IF lookupSymbolFuncOp(syms, name) THEN syms
      ELSE addFunction(syms, name, FunctionType(srcType, dstType), atFront)

\* the module holds the public functions whose boundaries are converted;
\* none of them has the name of a conversion function
ThunkInit ==
  /\ uSyms = <<Sym("f", "func", FunctionType("none", "none"))>>
  /\ uLog = <<>>
  /\ uAssert \in BOOLEAN
  /\ uPhase = "run"

\* one request, as logged: what was asked for, and the module before
Request(dir, m, name, srcType, dstType) ==
  [dir |-> dir, type |-> m, name |-> name, src |-> srcType, dst |-> dstType,
   before |-> uSyms]

\* processArg of fixFuncSig on an argument of memref type m: the array
\* struct rebuilt from the flattened arguments is converted to the
\* descriptor by a call of the function
ProcessArg(m, atFront) ==
  /\ uPhase = "run"
  /\ Len(uLog) < MaxRequests
  /\ LET name == genToMemrefConversionFuncName(m)
         srcType == getArrayType(m)
         dstType == convertMemRefType(m)
     IN  IF uAssert /\ ~ThunkAssertOk(uSyms, name, dstType)
         THEN /\ uPhase' = "aborted"
              /\ UNCHANGED <<uSyms, uLog>>
         ELSE /\ uSyms' = getToMemrefConversionFunc(uSyms, m, srcType,
                                                    dstType, atFront)
              /\ uLog' = Append(uLog, Request("to", m, name, srcType, dstType))
              /\ UNCHANGED uPhase
  /\ UNCHANGED uAssert
  /\ UNCHANGED notThunk

\* convertVal of ReturnOpLowering on an operand of memref type m: the
\* descriptor is converted to the array struct by a call of the function
ConvertVal(m, atFront) ==
  /\ uPhase = "run"
  /\ Len(uLog) < MaxRequests
  /\ LET name == genFromMemrefConversionFuncName(m)
         srcType == convertMemRefType(m)
         dstType == getArrayType(m)
     IN  IF uAssert /\ ~ThunkAssertOk(uSyms, name, dstType)
         THEN /\ uPhase' = "aborted"
              /\ UNCHANGED <<uSyms, uLog>>
         ELSE /\ uSyms' = getFromMemrefConversionFunc(uSyms, m, srcType,
                                                      dstType, atFront)
              /\ uLog' = Append(uLog,
                                Request("from", m, name, srcType, dstType))
              /\ UNCHANGED uPhase
  /\ UNCHANGED uAssert
  /\ UNCHANGED notThunk

ThunkNext ==
  \E m \in MemRefTypes, atFront \in BOOLEAN :
    \/ ProcessArg(m, atFront)
    \/ ConvertVal(m, atFront)

\* the module after request k
ModuleAfter(k) == IF k = Len(uLog) THEN uSyms ELSE uLog[k + 1].before

\* C22: after any sequence of conversions the module holds at most one
\* conversion function per direction, rank and element type; a request for a
\* combination that has one adds no function; and the function a request
\* gets takes the type the requester passes and returns the type it needs.
C22_OneThunkPerCombination ==
  /\ uPhase # "aborted"
  /\ \A i, j \in DOMAIN uSyms : i # j => uSyms[i].name # uSyms[j].name
  /\ \A k \in DOMAIN uLog :
       LET r == uLog[k]
       IN  /\ lookupSymbolFrom(r.before, r.name, 1) # 0
                => ModuleAfter(k) = r.before
           /\ ThunkOf(ModuleAfter(k), r.name).body =
                FunctionType(r.src, r.dst)

(***************************************************************************)
(* ABI fixer: the signatures.  fixFuncSig with flattenType and unflatten,  *)
(* as PreLLVMLowering runs it on the functions of one module, one function *)
(* after the other.                                                        *)
(***************************************************************************)

\* most arguments of a function
MaxArgs == 2

\* LLVM types: a type that is neither a struct nor an array, a struct with
\* its members, an array with its element type and size
LeafType(t) == [k |-> "leaf", t |-> t]
StructType(body) == [k |-> "struct", body |-> body]
ArrayType(elem, n) == [k |-> "array", elem |-> elem, n |-> n]

\* the members getArrayType gives the array struct of a memref of that rank
arrayStruct(rank) ==
  StructType(
    <<LeafType("ptr"), LeafType("ptr"), LeafType("i64"), LeafType("i64"),
      LeafType("ptr")>> \o
    (IF rank > 0
     THEN <<ArrayType(LeafType("i64"), rank), ArrayType(LeafType("i64"), rank)>>
     ELSE <<>>))

\* the concatenation of the sequences seqs[i], seqs[i + 1], ...
RECURSIVE ConcatFrom(_, _)
ConcatFrom(seqs, i) ==
  IF i > Len(seqs) THEN <<>> ELSE seqs[i] \o ConcatFrom(seqs, i + 1)

\* flattenType: func is called on the members of a struct in order, on the
\* element type of an array once per element, on any other type itself; the
\* result is the sequence of the types func was called on
RECURSIVE flattenType(_)
flattenType(type) ==
  IF type.k = "struct"
  THEN ConcatFrom([i \in DOMAIN type.body |-> flattenType(type.body[i])], 1)
  ELSE IF type.k = "array"
  THEN ConcatFrom([i \in 1 .. type.n |-> flattenType(type.elem)], 1)
  ELSE <<type.t>>

\* a nextFunc that hands the new arguments out from the last one
nextFuncReversed(newArgs, it) == newArgs[Len(newArgs) + 1 - it]

\* the nextFunc of processArg: the new argument the iterator is at
nextFunc(newArgs, it) == newArgs[it]

\* unflatten: the value built for the type and the iterator after it; a
\* struct or array value is an undef with one insertvalue per member, in
\* the order of the members
RECURSIVE unflatten(_, _, _)
RECURSIVE unflattenMembers(_, _, _, _, _)
unflattenMembers(types, i, newArgs, it, acc) ==
  IF i > Len(types) THEN [val |-> [k |-> "agg", body |-> acc], it |-> it]
  ELSE LET r == unflatten(types[i], newArgs, it)
       IN  unflattenMembers(types, i + 1, newArgs, r.it, Append(acc, r.val))

unflatten(type, newArgs, it) ==
  IF type.k = "struct" THEN unflattenMembers(type.body, 1, newArgs, it, <<>>)
  ELSE IF type.k = "array"
  THEN unflattenMembers([i \in 1 .. type.n |-> type.elem], 1, newArgs, it,
                        <<>>)
  ELSE [val |-> [k |-> "arg", v |-> nextFunc(newArgs, it)], it |-> it + 1]

\* the types of the arguments of a function: a type that is no memref, a
\* memref the type converter converts, a memref it does not convert
AbiArgTypes ==
  {[kind |-> "scalar", rank |-> 0]} \cup
  [kind : {"memref", "badmemref"}, rank : 0 .. MaxRank]

\* one argument of the new signature: its type, the old argument it stands
\* for (0: none) and which of the flattened fields of that argument it is
\* (0: the argument as it was)
Param(type, from, field) == [type |-> type, from |-> from, field |-> field]

\* a function the pass has not run on
AbiFunc(private, args) ==
  [private |-> private, args |-> args, params |-> <<>>, res |-> "orig",
   desc |-> [k \in DOMAIN args |-> [k |-> "none"]], runs |-> 0]

\* numba::addFunction creates private functions: the conversion functions
\* are private
IsPrivate(sym) ==
  IF "private" \in DOMAIN sym.body THEN sym.body.private ELSE TRUE

\* the memref type of a memref argument, as the conversion functions see it
AbiMemRef(a) == [rank |-> a.rank, elem |-> "f64", space |-> 0]

\* the loop over oldArgs of fixFuncSig from argument i on: acc holds the new
\* argument list, the value that replaces each old argument, the module,
\* and whether an assertion failed
RECURSIVE processArgs(_, _, _, _)
processArgs(args, i, acc, atFront) ==
  IF i > Len(args) \/ acc.aborted THEN acc
  ELSE IF args[i].kind = "scalar"
  THEN processArgs(args, i + 1,
         [acc EXCEPT !.params = Append(@, Param("arg", i, 0))], atFront)
  ELSE LET arrType == arrayStruct(args[i].rank)
           flat == flattenType(arrType)
           newArgs == [j \in 1 .. Len(flat) |-> Param(flat[j], i, j)]
           desc == unflatten(arrType, newArgs, 1).val
           m == AbiMemRef(args[i])
       IN  IF args[i].kind = "badmemref"
           THEN [acc EXCEPT !.params = @ \o newArgs, !.aborted = TRUE]
           ELSE processArgs(args, i + 1,
                  [acc EXCEPT !.params = @ \o newArgs,
                              !.desc[i] = desc,
                              !.syms = getToMemrefConversionFunc(
                                         @, m, getArrayType(m),
                                         convertMemRefType(m), atFront)],
                  atFront)

\* fixFuncSig on a function whose results convert: a private function is
\* left alone; otherwise the two pointers are added in front, the old
\* arguments are processed and the function gets its new type
fixFuncSig(f, syms, atFront) ==
  IF f.private THEN [func |-> f, syms |-> syms, aborted |-> FALSE]
  ELSE LET r == processArgs(f.args, 1,
                  [params |-> <<Param("ptr", 0, 1), Param("ptr", 0, 2)>>,
                   desc |-> f.desc, syms |-> syms, aborted |-> FALSE],
                  atFront)
       IN  [func |-> [f EXCEPT !.params = r.params, !.desc = r.desc,
                               !.res = "i32", !.runs = @ + 1],
            syms |-> r.syms, aborted |-> r.aborted]

\* the modules: a function f and a function g with at most one argument
AbiInit ==
  /\ \E pf, pg \in BOOLEAN :
       \E af \in SeqsUpTo(AbiArgTypes, MaxArgs), ag \in SeqsUpTo(AbiArgTypes, 1) :
         aSyms = <<Sym("f", "func", AbiFunc(pf, af)),
                   Sym("g", "func", AbiFunc(pg, ag))>>
  /\ aIdx = 1
  /\ aPhase = "run"

\* the symbols of syms with symbol k replaced by a function of body f
WithFunc(syms, name, f) ==
  [k \in DOMAIN syms |->
     IF syms[k].name = name /\ "private" \in DOMAIN syms[k].body
     THEN Sym(name, "func", f) ELSE syms[k]]

\* PreLLVMLowering::runOnOperation on the function the pass manager is at,
\* a function the module held when the pass started or one added since;
\* then the pass manager goes to the function after it
RunOnFunction(atFront) ==
  /\ aPhase = "run"
  /\ aIdx <= Len(aSyms)
  /\ LET sym == aSyms[aIdx]
     IN  IF IsPrivate(sym)
         THEN /\ aIdx' = aIdx + 1
              /\ UNCHANGED <<aSyms, aPhase>>
         ELSE LET r == fixFuncSig(sym.body, aSyms, atFront)
                  added == Len(r.syms) - Len(aSyms)
              IN  /\ aSyms' = WithFunc(r.syms, sym.name, r.func)
                  /\ aIdx' = aIdx + 1 + (IF atFront THEN added ELSE 0)
                  /\ aPhase' = IF r.aborted THEN "aborted" ELSE "run"
  /\ UNCHANGED notAbi

\* the pass manager has run the pass on every function
AbiPassEnd ==
  /\ aPhase = "run"
  /\ aIdx > Len(aSyms)
  /\ aPhase' = "done"
  /\ UNCHANGED <<aSyms, aIdx>>
  /\ UNCHANGED notAbi

AbiNext ==
  \/ \E atFront \in BOOLEAN : RunOnFunction(atFront)
  \/ AbiPassEnd

\* the arguments a value was built from, in the order of its members
RECURSIVE LeavesOf(_)
LeavesOf(val) ==
  IF val.k = "agg"
  THEN ConcatFrom([i \in DOMAIN val.body |-> LeavesOf(val.body[i])], 1)
  ELSE <<val.v>>

\* the types of the flattened fields of an array of that rank
FieldTypes(rank) ==
  <<"ptr", "ptr", "i64", "i64", "ptr">> \o [j \in 1 .. 2 * rank |-> "i64"]

\* the arguments that stand for old argument i in the new signature
ParamsOf(args, i) ==
  IF args[i].kind = "scalar" THEN <<Param("arg", i, 0)>>
  ELSE [j \in 1 .. Len(FieldTypes(args[i].rank)) |->
          Param(FieldTypes(args[i].rank)[j], i, j)]

\* C23: once the pass has run on the module every public function has been
\* rewritten exactly once, its result is the i32 status, its arguments are
\* the return pointer, the exception pointer and then, per old argument in
\* order, the argument itself or the flattened fields of its array struct,
\* and the struct rebuilt for a memref argument is built from exactly these
\* fields, each once, in the same order; a private function is as it was.
C23_FixedSignature ==
  aPhase = "done" =>
    \A s \in DOMAIN aSyms :
      "private" \in DOMAIN aSyms[s].body =>
        LET f == aSyms[s].body
        IN  IF f.private THEN f = AbiFunc(TRUE, f.args)
            ELSE /\ f.runs = 1
                 /\ f.res = "i32"
                 /\ f.params =
                      <<Param("ptr", 0, 1), Param("ptr", 0, 2)>> \o
                      ConcatFrom([i \in DOMAIN f.args |-> ParamsOf(f.args, i)],
                                 1)
                 /\ \A i \in DOMAIN f.args :
                      f.args[i].kind = "memref" =>
                        LeavesOf(f.desc[i]) = ParamsOf(f.args, i)

\* the pass has run on a module with a private function and a public
\* function that takes a memref of rank above zero after another argument
C23_Witness ==
  /\ aPhase = "done"
  /\ \E s, t \in DOMAIN aSyms :
       /\ "private" \in DOMAIN aSyms[s].body
       /\ "private" \in DOMAIN aSyms[t].body
       /\ aSyms[s].body.private
       /\ ~aSyms[t].body.private
       /\ Len(aSyms[t].body.args) = 2
       /\ aSyms[t].body.args[2] = [kind |-> "memref", rank |-> 1]

(***************************************************************************)
(* The escape check of HoistBufferAllocs on an allocation with a chain of  *)
(* views: xUses[1] are the users of the allocation, xUses[l + 1] the users *)
(* of the view of the value of level l.                                    *)
(***************************************************************************)

\* longest chain of views of an allocation
MaxViews == 2

\* the users of a value that are no views
EscapeUses == <<"load", "store", "dealloc", "call", "return">>

EscapeUseSets ==
  {u \in SUBSET {EscapeUses[k] : k \in DOMAIN EscapeUses} :
     Cardinality(u) <= 2}

\* the value of level l, and user k of it
LevelId(l) == 100 * l
UserId(l, k) == 100 * l + k

\* the operations that use the allocation or one of its views
EscapeOps(uses) ==
  UNION {
    {MkOp(UserId(l, k), EscapeUses[k], LevelId(l), {LevelId(l)}, {}, 0, 0,
          NoType) : k \in {j \in DOMAIN EscapeUses : EscapeUses[j] \in uses[l]}}
    \cup (IF l < Len(uses)
          THEN {MkOp(LevelId(l + 1), "view", LevelId(l), {LevelId(l)}, {}, 0,
                     0, NoType)}
          ELSE {}) : l \in DOMAIN uses}

EscapeInit ==
  /\ xUses \in {u \in SeqsUpTo(EscapeUseSets, MaxViews + 1) : u # <<>>}
  /\ xRes = "none"

\* HoistBufferAllocs::matchAndRewrite asks canResultEscape(op)
CheckEscape ==
  /\ xRes = "none"
  /\ xRes' = IF canResultEscape(EscapeOps(xUses), LevelId(1), TRUE)
             THEN "escapes" ELSE "stays"
  /\ UNCHANGED xUses
  /\ UNCHANGED notEscape

EscapeNext == CheckEscape

\* C25: the check answers that the result escapes exactly when the
\* allocation or a view of it, at any depth, has a user that is no load, no
\* store, no view and no deallocation of the allocation itself: a
\* deallocation of a view, a call and a return are escapes.
C25_EscapeCheck ==
  xRes # "none" =>
    ((xRes = "escapes") <=>
       \E l \in DOMAIN xUses : \E u \in xUses[l] :
         /\ u \notin {"load", "store"}
         /\ ~(u = "dealloc" /\ l = 1))

\* the allocation is loaded, stored and deallocated, and the view of a view
\* of it is deallocated: the check has answered that it escapes
C25_Witness ==
  /\ xRes = "escapes"
  /\ Len(xUses) = 3
  /\ xUses[1] = {"store", "dealloc"}
  /\ xUses[2] = {"load"}
  /\ xUses[3] = {"dealloc"}

(***************************************************************************)
(* promoteLoads on a region of one block.  An operation is a load or a     *)
(* store of one of two buffers, an operation that declares a write or a    *)
(* read effect, an operation that declares no effect (a call), or an       *)
(* operation with one region of one block that it runs once.               *)
(***************************************************************************)

\* operations in the block promoteLoads is applied to
MaxOps == 3

\* deepest nest of regions around an operation of the block
MaxRegionDepth == 2

MemOp(k, loc, val, body) == [k |-> k, loc |-> loc, val |-> val, body |-> body]

\* operation op inside d operations with a region
RECURSIVE Wrap(_, _)
Wrap(op, d) ==
  IF d = 0 THEN op ELSE MemOp("region", "", 0, <<Wrap(op, d - 1)>>)

\* what an operation of the block can be: stores and loads of buffer x at
\* any depth, of buffer y in the block itself, the operations with a
\* declared effect in the block itself, the call at any depth
PromoteMenu ==
  [k : {"load", "store", "unknown"}, loc : {"x"}, depth : 0 .. MaxRegionDepth]
  \cup [k : {"load", "store"}, loc : {"y"}, depth : {0}]
  \cup [k : {"write", "read"}, loc : {""}, depth : {0}]

\* the block for a sequence of menu entries; the store at position i stores
\* the value i
Program(s) ==
  [i \in DOMAIN s |-> Wrap(MemOp(s[i].k, s[i].loc, i, <<>>), s[i].depth)]

\* isWrite / isRead: the operation has the interface and declares the effect
isWrite(op) == op.k = "write"
isRead(op) == op.k = "read"

\* the loop of promoteLoadsImpl over the operations of a block, from
\* operation i on; st.out is the block so far, st.cur the position of
\* currentStore in it (0: null)
RECURSIVE promoteLoadsBlock(_, _, _)
RECURSIVE promoteLoadsImpl(_)
promoteLoadsBlock(ops, i, st) ==
  IF i > Len(ops) THEN st
  ELSE LET op == ops[i]
           n == Len(st.out) + 1
       IN
    IF op.k = "region"
    THEN LET res == promoteLoadsImpl(op.body)
         IN  promoteLoadsBlock(ops, i + 1,
               [st EXCEPT !.out = Append(@, [op EXCEPT !.body = res.out]),
                          !.changed = @ \/ res.changed,
                          !.cur = IF res.hasWrites THEN 0 ELSE @,
                          !.dead = IF res.hasReads THEN FALSE ELSE @])
    ELSE IF op.k = "load"
    THEN IF st.cur # 0 /\ st.out[st.cur].loc = op.loc
         THEN promoteLoadsBlock(ops, i + 1,
                [st EXCEPT !.out = Append(@, MemOp("value", "",
                                                   st.out[st.cur].val, <<>>)),
                           !.hasReads = TRUE, !.changed = TRUE])
         ELSE promoteLoadsBlock(ops, i + 1,
                [st EXCEPT !.out = Append(@, op), !.hasReads = TRUE,
                           !.dead = IF st.cur # 0 THEN FALSE ELSE @])
    ELSE IF op.k = "store"
    THEN LET erase == st.cur # 0 /\ st.dead /\ st.out[st.cur].loc = op.loc
             kept == IF erase
                     THEN [st.out EXCEPT ![st.cur] = MemOp("erased", "", 0, <<>>)]
                     ELSE st.out
         IN  promoteLoadsBlock(ops, i + 1,
               [st EXCEPT !.out = Append(kept, op), !.hasWrites = TRUE,
                          !.cur = n, !.dead = TRUE])
    ELSE IF isWrite(op)
    THEN promoteLoadsBlock(ops, i + 1,
           [st EXCEPT !.out = Append(@, op), !.hasWrites = TRUE, !.cur = 0])
    ELSE IF isRead(op)
    THEN promoteLoadsBlock(ops, i + 1,
           [st EXCEPT !.out = Append(@, op), !.hasReads = TRUE,
                      !.dead = FALSE])
    ELSE promoteLoadsBlock(ops, i + 1, [st EXCEPT !.out = Append(@, op)])

\* promoteLoadsImpl on a region with one block
promoteLoadsImpl(ops) ==
  promoteLoadsBlock(ops, 1,
    [out |-> <<>>, cur |-> 0, dead |-> FALSE, changed |-> FALSE,
     hasWrites |-> FALSE, hasReads |-> FALSE])

PromoteInit ==
  /\ mProg \in {Program(s) : s \in SeqsUpTo(PromoteMenu, MaxOps)}
  /\ mOut = <<>>
  /\ mPhase = "start"

\* plier::promoteLoads(region, rewriter)
PromoteLoads ==
  /\ mPhase = "start"
  /\ mOut' = promoteLoadsImpl(mProg).out
  /\ mPhase' = IF promoteLoadsImpl(mProg).changed THEN "success" ELSE "failure"
  /\ UNCHANGED mProg
  /\ UNCHANGED notPromote

PromoteNext == PromoteLoads

\* one run of a block from memory mem: the memory after it and the values
\* the loads, the readers and the calls have seen, in order.  A load that
\* was replaced sees the value that replaced it; an operation with a write
\* effect and a call overwrite both buffers
RECURSIVE RunBlock(_, _, _)
RunBlock(ops, i, s) ==
  IF i > Len(ops) THEN s
  ELSE LET op == ops[i]
           both == <<s.mem.x, s.mem.y>>
           next ==
             CASE op.k = "region" -> RunBlock(op.body, 1, s)
               [] op.k = "load" -> [s EXCEPT !.seen = Append(@, <<s.mem[op.loc]>>)]
               [] op.k = "value" -> [s EXCEPT !.seen = Append(@, <<op.val>>)]
               [] op.k = "store" -> [s EXCEPT !.mem[op.loc] = op.val]
               [] op.k = "read" -> [s EXCEPT !.seen = Append(@, both)]
               [] op.k = "write" -> [s EXCEPT !.mem = [x |-> 91, y |-> 91]]
               [] op.k = "unknown" ->
                    [s EXCEPT !.seen = Append(@, both),
                              !.mem = [x |-> 92, y |-> 92]]
               [] OTHER -> s
       IN  RunBlock(ops, i + 1, next)

Run(ops) == RunBlock(ops, 1, [mem |-> [x |-> 0, y |-> 0], seen |-> <<>>])

\* C27: what promoteLoads leaves behaves as the region it was applied to:
\* every load, reader and call sees the same values and the memory at the
\* end is the same, whatever the operations and however deep they lie.
C27_PromoteLoadsPreservesMemory ==
  mPhase \in {"success", "failure"} => Run(mOut) = Run(mProg)

(***************************************************************************)
(* The bodies the lowering generates for NRT_incref and NRT_decref, called *)
(* by several threads on one meminfo.  NRT_incref is one atomicrmw add;    *)
(* NRT_decref is an atomicrmw sub, then a branch on the value it returned. *)
(***************************************************************************)

\* threads that call NRT_incref and NRT_decref on the meminfo
MaxHolders == 3

\* most references to the meminfo at one time
MaxRefs == 3

NrtThreads == 1 .. MaxHolders

RECURSIVE SumHeld(_, _)
SumHeld(held, t) == IF t = 0 THEN 0 ELSE held[t] + SumHeld(held, t - 1)

\* the references held by all threads
HeldBy(held) == SumHeld(held, MaxHolders)

\* icmp eq of the atomicrmw result with one, as the result is the old count
isReleaseOfNewCount(res) == res - 1 = 1
isRelease(res) == res = 1

\* the meminfo as allocated: the count is the number of references held
NrtInit ==
  /\ nrtHeld \in [NrtThreads -> 0 .. 1]
  /\ HeldBy(nrtHeld) >= 1
  /\ nrtRefcnt = HeldBy(nrtHeld)
  /\ nrtPc = [t \in NrtThreads |-> "idle"]
  /\ nrtRes = [t \in NrtThreads |-> 0]
  /\ nrtDtor = <<>>

\* NRT_incref(meminfo), called by a thread that holds a reference: atomicrmw
\* add of one to the count, seq_cst; the caller has one reference more
NRT_incref(t) ==
  /\ nrtPc[t] = "idle"
  /\ nrtHeld[t] >= 1
  /\ HeldBy(nrtHeld) < MaxRefs
  /\ nrtRefcnt' = nrtRefcnt + 1
  /\ nrtHeld' = [nrtHeld EXCEPT ![t] = @ + 1]
  /\ UNCHANGED <<nrtPc, nrtRes, nrtDtor>>
  /\ UNCHANGED notNrt

\* entry block of NRT_decref(meminfo), called by a thread to release a
\* reference it holds: atomicrmw sub of one, seq_cst, which returns the count
\* it found
NRT_decref(t) ==
  /\ nrtPc[t] = "idle"
  /\ nrtHeld[t] >= 1
  /\ nrtRes' = [nrtRes EXCEPT ![t] = nrtRefcnt]
  /\ nrtRefcnt' = nrtRefcnt - 1
  /\ nrtHeld' = [nrtHeld EXCEPT ![t] = @ - 1]
  /\ nrtPc' = [nrtPc EXCEPT ![t] = "branch"]
  /\ UNCHANGED nrtDtor
  /\ UNCHANGED notNrt

\* cond_br isRelease: the release block calls NRT_MemInfo_call_dtor and
\* returns, the return block returns
NRT_decref_branch(t) ==
  /\ nrtPc[t] = "branch"
  /\ nrtDtor' = IF isRelease(nrtRes[t])
                THEN Append(nrtDtor, [by |-> t, found |-> nrtRes[t],
                                      held |-> HeldBy(nrtHeld)])
                ELSE nrtDtor
  /\ nrtPc' = [nrtPc EXCEPT ![t] = "idle"]
  /\ UNCHANGED <<nrtRefcnt, nrtHeld, nrtRes>>
  /\ UNCHANGED notNrt

NrtNext ==
  \E t \in NrtThreads :
    \/ NRT_incref(t)
    \/ NRT_decref(t)
    \/ NRT_decref_branch(t)

\* C28: whatever the interleaving of NRT_incref and NRT_decref calls on one
\* meminfo, the destructor is called at most once, by a decref that found
\* the count one, at a time no reference is held, and it has been called
\* once no reference is held and no thread is inside NRT_decref.
C28_DestructorCalledOnce ==
  /\ Len(nrtDtor) <= 1
  /\ \A i \in DOMAIN nrtDtor : nrtDtor[i].found = 1 /\ nrtDtor[i].held = 0
  /\ (HeldBy(nrtHeld) = 0 /\ \A t \in NrtThreads : nrtPc[t] = "idle")
       => Len(nrtDtor) = 1

\* two threads were inside NRT_decref at the same time, the count went up
\* before it went down, and the destructor was called
C28_Witness ==
  /\ Len(nrtDtor) = 1
  /\ \E t \in NrtThreads : t # nrtDtor[1].by /\ nrtPc[t] = "branch"
  /\ \E t \in NrtThreads : nrtRes[t] >= 2

(***************************************************************************)
(* SingeWriteMemref on the store of a buffer.  The block of the buffer is  *)
(* the operations after its definition: the definition of a value, stores  *)
(* of that value or of a block argument, loads, a dealloc and a call that  *)
(* takes the buffer; a nested store or load lies in the region of an       *)
(* operation at its position, in another block.                            *)
(***************************************************************************)

\* operations after the definition of the buffer
MaxUsers == 3

BufOp(k, val, nested) == [k |-> k, val |-> val, nested |-> nested]

SingleMenu ==
  {BufOp("def", "v", FALSE), BufOp("dealloc", "", FALSE),
   BufOp("call", "", FALSE)}
  \cup {BufOp("store", "v", FALSE)}
  \cup [k : {"store"}, val : {"arg"}, nested : BOOLEAN]
  \cup [k : {"load"}, val : {""}, nested : BOOLEAN]

\* valid IR: the value is defined once, before the store of it
ValidBlock(b) ==
  /\ \A i, j \in DOMAIN b : (b[i].k = "def" /\ b[j].k = "def") => i = j
  /\ \A i \in DOMAIN b :
       (b[i].k = "store" /\ b[i].val = "v") =>
         \E j \in 1 .. (i - 1) : b[j].k = "def"

SingleBlocks == {b \in SeqsUpTo(SingleMenu, MaxUsers) : ValidBlock(b)}

\* checkIsSingleElementsMemref(type): ranked and every extent is one
checkIsSingleElementsMemref(type) ==
  type.ranked /\ \A d \in DOMAIN type.shape : type.shape[d] = 1

BufTypes ==
  {[ranked |-> FALSE, shape |-> <<>>], [ranked |-> TRUE, shape |-> <<>>],
   [ranked |-> TRUE, shape |-> <<1>>], [ranked |-> TRUE, shape |-> <<2>>]}

SingleInit ==
  /\ wBuf \in [type : BufTypes, parent : {"alloc", "alloca", "arg"}]
  /\ wBlock \in SingleBlocks
  /\ wOut = <<>>
  /\ wRes = "start"

\* memref.getUsers(): the positions of the operations that take the buffer
BufUsers(b) == {i \in DOMAIN b : b[i].k # "def"}

\* the block after the rewrite: every load is replaced by the stored value,
\* which its users take from then on; every user of the buffer is erased
RewrittenBlock(b, val) ==
  [i \in DOMAIN b |->
     IF b[i].k = "load" THEN BufOp("use", val, b[i].nested)
     ELSE IF b[i].k = "def" THEN b[i]
     ELSE BufOp("erased", "", FALSE)]

\* matchAndRewrite(op, rewriter) for the store at position op of block b
SingeWriteMemrefResult(buf, b, op) ==
  LET stores == {i \in BufUsers(b) : b[i].k = "store"}
      unsupported == {i \in BufUsers(b) : b[i].k = "call"}
      unchanged == [res |-> "failure", block |-> b, buf |-> buf]
  IN  IF ~checkIsSingleElementsMemref(buf.type) THEN unchanged
      ELSE IF buf.parent \notin {"alloc", "alloca"} THEN unchanged
      ELSE IF Cardinality(stores) > 1 \/ unsupported # {} THEN unchanged
      ELSE IF b[op].nested THEN unchanged
      ELSE [res |-> "success", block |-> RewrittenBlock(b, b[op].val),
            buf |-> [buf EXCEPT !.parent = "erased"]]

\* the pattern is applied to one store of the buffer
SingeWriteMemref ==
  /\ wRes = "start"
  /\ \E op \in DOMAIN wBlock :
       /\ wBlock[op].k = "store"
       /\ wOut' = SingeWriteMemrefResult(wBuf, wBlock, op)
       /\ wRes' = SingeWriteMemrefResult(wBuf, wBlock, op).res
  /\ UNCHANGED <<wBuf, wBlock>>
  /\ UNCHANGED notSingle

SingleNext == SingeWriteMemref

\* where the stored value is defined: a block argument before every
\* operation, the value at its definition
DefPos(b, val) ==
  IF val = "arg" THEN 0 ELSE CHOOSE i \in DOMAIN b : b[i].k = "def"

\* C30: when SingeWriteMemref rewrites, every load it replaced lies after
\* the only store of the buffer and after the definition of the stored
\* value; when it does not, the buffer and its block are as they were.
C30_LoadsReplacedOnlyAfterStore ==
  /\ wRes = "success" =>
       \A s, l \in DOMAIN wBlock :
         (wBlock[s].k = "store" /\ wBlock[l].k = "load") =>
           /\ s < l
           /\ DefPos(wBlock, wBlock[s].val) < l
           /\ wOut.block[l] = BufOp("use", wBlock[s].val, wBlock[l].nested)
  /\ wRes = "failure" => (wOut.block = wBlock /\ wOut.buf = wBuf)

(***************************************************************************)
(* Specifications.                                                         *)
(***************************************************************************)
InitReduce == RedInit /\ HoistIdle /\ LowerIdle /\ ReturnIdle
  /\ TbbIdle /\ NameIdle /\ EngineIdle /\ CacheIdle /\ PipeIdle
  /\ CastIdle /\ ThunkIdle /\ AbiIdle /\ EscapeIdle /\ PromoteIdle
  /\ NrtIdle /\ SingleIdle

SpecReduce == InitReduce /\ [][RedNext]_vars

InitHoist == HoistInit /\ RedIdle /\ LowerIdle /\ ReturnIdle
  /\ TbbIdle /\ NameIdle /\ EngineIdle /\ CacheIdle /\ PipeIdle
  /\ CastIdle /\ ThunkIdle /\ AbiIdle /\ EscapeIdle /\ PromoteIdle
  /\ NrtIdle /\ SingleIdle

SpecHoist == InitHoist /\ [][HoistNext]_vars

InitLower == LowerInit /\ RedIdle /\ HoistIdle /\ ReturnIdle
  /\ TbbIdle /\ NameIdle /\ EngineIdle /\ CacheIdle /\ PipeIdle
  /\ CastIdle /\ ThunkIdle /\ AbiIdle /\ EscapeIdle /\ PromoteIdle
  /\ NrtIdle /\ SingleIdle

SpecLower == InitLower /\ [][LowerNext]_vars

InitReturn == ReturnInit /\ RedIdle /\ HoistIdle /\ LowerIdle
  /\ TbbIdle /\ NameIdle /\ EngineIdle /\ CacheIdle /\ PipeIdle
  /\ CastIdle /\ ThunkIdle /\ AbiIdle /\ EscapeIdle /\ PromoteIdle
  /\ NrtIdle /\ SingleIdle

SpecReturn == InitReturn /\ [][ReturnNext]_vars

InitTbb == TbbInit /\ RedIdle /\ HoistIdle /\ LowerIdle
  /\ ReturnIdle /\ NameIdle /\ EngineIdle /\ CacheIdle /\ PipeIdle
  /\ CastIdle /\ ThunkIdle /\ AbiIdle /\ EscapeIdle /\ PromoteIdle
  /\ NrtIdle /\ SingleIdle

SpecTbb == InitTbb /\ [][TbbNext]_vars

InitTbbDriver ==
  TbbInitDriver /\ RedIdle /\ HoistIdle /\ LowerIdle /\ ReturnIdle
  /\ NameIdle /\ EngineIdle /\ CacheIdle /\ PipeIdle /\ CastIdle
  /\ ThunkIdle /\ AbiIdle /\ EscapeIdle /\ PromoteIdle /\ NrtIdle
  /\ SingleIdle

\* the driver keeps working while its worklist holds an operation
SpecTbbFair == InitTbbDriver /\ [][TbbNext]_vars /\ WF_vars(TbbNext)

InitName == NameInit /\ RedIdle /\ HoistIdle /\ LowerIdle
  /\ ReturnIdle /\ TbbIdle /\ EngineIdle /\ CacheIdle /\ PipeIdle
  /\ CastIdle /\ ThunkIdle /\ AbiIdle /\ EscapeIdle /\ PromoteIdle
  /\ NrtIdle /\ SingleIdle

SpecName == InitName /\ [][NameNext]_vars

InitEngine == EngineInit /\ RedIdle /\ HoistIdle /\ LowerIdle
  /\ ReturnIdle /\ TbbIdle /\ NameIdle /\ CacheIdle /\ PipeIdle
  /\ CastIdle /\ ThunkIdle /\ AbiIdle /\ EscapeIdle /\ PromoteIdle
  /\ NrtIdle /\ SingleIdle

SpecEngine == InitEngine /\ [][EngineNext]_vars

InitCache == CacheInit /\ RedIdle /\ HoistIdle /\ LowerIdle
  /\ ReturnIdle /\ TbbIdle /\ NameIdle /\ EngineIdle /\ PipeIdle
  /\ CastIdle /\ ThunkIdle /\ AbiIdle /\ EscapeIdle /\ PromoteIdle
  /\ NrtIdle /\ SingleIdle

SpecCache == InitCache /\ [][CacheNext]_vars

InitPipe == PipeInit /\ RedIdle /\ HoistIdle /\ LowerIdle
  /\ ReturnIdle /\ TbbIdle /\ NameIdle /\ EngineIdle /\ CacheIdle
  /\ CastIdle /\ ThunkIdle /\ AbiIdle /\ EscapeIdle /\ PromoteIdle
  /\ NrtIdle /\ SingleIdle

SpecPipe == InitPipe /\ [][PipeNext]_vars

InitCast == CastInit /\ RedIdle /\ HoistIdle /\ LowerIdle
  /\ ReturnIdle /\ TbbIdle /\ NameIdle /\ EngineIdle /\ CacheIdle
  /\ PipeIdle /\ ThunkIdle /\ AbiIdle /\ EscapeIdle /\ PromoteIdle
  /\ NrtIdle /\ SingleIdle

\* some rule is applied as long as one applies; which one is not fixed
SpecCast == InitCast /\ [][CastNext]_vars /\ WF_vars(CastNext)

InitThunk == ThunkInit /\ RedIdle /\ HoistIdle /\ LowerIdle
  /\ ReturnIdle /\ TbbIdle /\ NameIdle /\ EngineIdle /\ CacheIdle
  /\ PipeIdle /\ CastIdle /\ AbiIdle /\ EscapeIdle /\ PromoteIdle
  /\ NrtIdle /\ SingleIdle

SpecThunk == InitThunk /\ [][ThunkNext]_vars

InitAbi == AbiInit /\ RedIdle /\ HoistIdle /\ LowerIdle
  /\ ReturnIdle /\ TbbIdle /\ NameIdle /\ EngineIdle /\ CacheIdle
  /\ PipeIdle /\ CastIdle /\ ThunkIdle /\ EscapeIdle
  /\ PromoteIdle /\ NrtIdle /\ SingleIdle

SpecAbi == InitAbi /\ [][AbiNext]_vars

InitEscape == EscapeInit /\ RedIdle /\ HoistIdle /\ LowerIdle
  /\ ReturnIdle /\ TbbIdle /\ NameIdle /\ EngineIdle /\ CacheIdle
  /\ PipeIdle /\ CastIdle /\ ThunkIdle /\ AbiIdle /\ PromoteIdle
  /\ NrtIdle /\ SingleIdle

SpecEscape == InitEscape /\ [][EscapeNext]_vars

InitPromote == PromoteInit /\ RedIdle /\ HoistIdle /\ LowerIdle
  /\ ReturnIdle /\ TbbIdle /\ NameIdle /\ EngineIdle /\ CacheIdle
  /\ PipeIdle /\ CastIdle /\ ThunkIdle /\ AbiIdle /\ EscapeIdle
  /\ NrtIdle /\ SingleIdle

SpecPromote == InitPromote /\ [][PromoteNext]_vars

InitNrt == NrtInit /\ RedIdle /\ HoistIdle /\ LowerIdle
  /\ ReturnIdle /\ TbbIdle /\ NameIdle /\ EngineIdle /\ CacheIdle
  /\ PipeIdle /\ CastIdle /\ ThunkIdle /\ AbiIdle /\ EscapeIdle
  /\ PromoteIdle /\ SingleIdle

SpecNrt == InitNrt /\ [][NrtNext]_vars

InitSingle == SingleInit /\ RedIdle /\ HoistIdle /\ LowerIdle
  /\ ReturnIdle /\ TbbIdle /\ NameIdle /\ EngineIdle /\ CacheIdle
  /\ PipeIdle /\ CastIdle /\ ThunkIdle /\ AbiIdle /\ EscapeIdle
  /\ PromoteIdle /\ NrtIdle

SpecSingle == InitSingle /\ [][SingleNext]_vars

=============================================================================
